---- MODULE Spec2Model ----
(***************************************************************************)
(* State-machine model of the retrieval-and-decision pipeline:             *)
(*   - Decider        (services/orchestrator/decider.py)                   *)
(*   - IntentRouter   (services/orchestrator/router.py)                    *)
(*   - WorkflowEngine (services/executor/workflow_engine.py)               *)
(* Scores are modelled in tenths (0.7 is 7).  The external model service   *)
(* is an environment that answers any request with any response of a       *)
(* small set of response shapes.  The resource registry is modelled at     *)
(* the interface its callers use (lookup returns a record or nothing,      *)
(* each call is its own transaction).                                      *)
(***************************************************************************)
EXTENDS Integers, Sequences, FiniteSets, TLC

(***************************************************************************)
(* Bounds of the model                                                     *)
(***************************************************************************)
MaxCands == 2
Now == 1
MaxSteps == 2

(***************************************************************************)
(* Program constants                                                       *)
(***************************************************************************)
HardRuleThreshold == 7
DeciderMaxRetries == 2
RouterMaxRetries == 2

(***************************************************************************)
(* JSON values                                                             *)
(***************************************************************************)
Null == "null"
EmptyStr == ""
Missing == "<missing>"
NotADict == "<not-a-dict>"

\* Python truthiness of a JSON scalar used as an id
Truthy(v) == v \notin {Null, EmptyStr, Missing}

(***************************************************************************)
(* config/constants.py                                                     *)
(***************************************************************************)
ActionType == {"RETURN_RESULT", "EXECUTE_WORKFLOW", "ASK_CLARIFY", "FALLBACK"}
ResourceType == {"DOC", "WORKFLOW", "TOOL", "RESULT", "STRUCTURED"}

(***************************************************************************)
(* Candidates handed to Decider.decide.  resource_id = Missing is a        *)
(* candidate without the key; total = Missing is a candidate without       *)
(* scores.total; fresh_until is absent, unparsable or a timestamp.         *)
(***************************************************************************)
CandIds == {"r1", "r2"}
ForeignId == "r9"
\* integer encodings of an absent scores.total and of an absent or
\* unparsable metadata.fresh_until (timestamps and totals are >= 0)
NoTotal == 0 - 1
NoFresh == 0 - 1
BadFresh == 0 - 2
CandTotals == {NoTotal, HardRuleThreshold, HardRuleThreshold + 2}
FreshVals == {NoFresh, BadFresh, Now - 1, Now + 1}

Candidates ==
    { c \in [resource_id : CandIds \cup {Missing},
             resource_type : {"RESULT", "DOC", "WORKFLOW"},
             total : CandTotals,
             fresh_until : FreshVals] :
        \* fresh_until is only read for a RESULT whose total reaches the threshold
        /\ (c.resource_type # "RESULT" \/ c.total = NoTotal) => c.fresh_until = NoFresh
        \* an absent or unparsable fresh_until is read the same way whatever the
        \* total that reaches the threshold
        /\ (c.resource_id # Missing /\ c.total = HardRuleThreshold + 2)
              => c.fresh_until \notin {NoFresh, BadFresh} \/ c.resource_type # "RESULT"
        \* no rule compares the total of a WORKFLOW with the threshold
        /\ c.resource_type = "WORKFLOW" => c.total # HardRuleThreshold
        \* one representative of the candidates that lack resource_id per type
        /\ c.resource_id = Missing =>
              (c.total = HardRuleThreshold + 2 /\ c.fresh_until \in {NoFresh, Now + 1}) }

RECURSIVE SeqsUpTo(_, _)
SeqsUpTo(S, n) ==
    IF n = 0 THEN {<<>>}
    ELSE LET shorter == SeqsUpTo(S, n - 1)
         IN  shorter \cup {Append(s, x) : s \in {t \in shorter : Len(t) = n - 1}, x \in S}

CandidateLists == SeqsUpTo(Candidates, MaxCands)

\* scores.get("total", 0.0)
Total(c) == IF c.total = NoTotal THEN 0 ELSE c.total

(***************************************************************************)
(* Actions (the dict decide returns).  fields is the set of top-level keys *)
(***************************************************************************)
ActionFields == {"action_type", "selected", "reason", "execution", "clarify"}

MkAction(atype, rid, rtype, conf) ==
    [action_type |-> atype, resource_id |-> rid, resource_type |-> rtype,
     confidence |-> conf, required |-> FALSE, executor_resource_id |-> Null,
     fields |-> ActionFields]

NoAction == [action_type |-> Missing, resource_id |-> Missing, resource_type |-> Missing,
             confidence |-> 0, required |-> FALSE, executor_resource_id |-> Missing,
             fields |-> {}]

Returned(a, n) == [outcome |-> "return", action |-> a, calls |-> n]
Raised(n) == [outcome |-> "raise", action |-> NoAction, calls |-> n]
NoHit == [outcome |-> "none", action |-> NoAction, calls |-> 0]

(***************************************************************************)
(* Decider._apply_hard_rules                                               *)
(***************************************************************************)
\* fromisoformat succeeds and the deadline is after utcnow
FreshInFuture(c) ==
    /\ c.fresh_until \notin {NoFresh, BadFresh}
    /\ c.fresh_until > Now

\* Rule1Fires with the threshold test made strict
Rule1FiresStrict(c) ==
    /\ c.resource_type = "RESULT"
    /\ Total(c) > HardRuleThreshold
    /\ c.fresh_until \notin {NoFresh, BadFresh}
    /\ c.fresh_until > Now
    /\ c.resource_id # Missing

\* rule 1: the loop body returns for this candidate; a missing resource_id
\* raises KeyError inside the try and is swallowed by the bare except
Rule1Fires(c) ==
    /\ c.resource_type = "RESULT"
    /\ Total(c) >= HardRuleThreshold
    /\ FreshInFuture(c)
    /\ c.resource_id # Missing

RECURSIVE Rule1Scan(_, _)
Rule1Scan(cands, i) ==
    IF i > Len(cands) THEN NoHit
    ELSE IF Rule1Fires(cands[i])
         THEN Returned(MkAction("RETURN_RESULT", cands[i].resource_id, "RESULT",
                                Total(cands[i])), 0)
         ELSE Rule1Scan(cands, i + 1)

\* rule 2: cand["resource_id"] is outside any try, a missing key raises
Rule2Matches(c) ==
    /\ c.resource_type = "DOC"
    /\ Total(c) >= HardRuleThreshold

RECURSIVE Rule2Scan(_, _)
Rule2Scan(cands, i) ==
    IF i > Len(cands) THEN NoHit
    ELSE IF Rule2Matches(cands[i])
         THEN IF cands[i].resource_id = Missing
              THEN Raised(0)
              ELSE Returned(MkAction("RETURN_RESULT", cands[i].resource_id, "DOC",
                                     Total(cands[i])), 0)
         ELSE Rule2Scan(cands, i + 1)

\* ApplyHardRules with the two rules evaluated in the opposite order
ApplyHardRulesDocFirst(cands) ==
    LET r2 == Rule2Scan(cands, 1)
    IN  IF r2.outcome # "none" THEN r2 ELSE Rule1Scan(cands, 1)

ApplyHardRules(cands) ==
    LET r1 == Rule1Scan(cands, 1)
    IN  IF r1.outcome # "none" THEN r1 ELSE Rule2Scan(cands, 1)

(***************************************************************************)
(* Responses of the decision service to one request                        *)
(***************************************************************************)
LlmActionTypes == ActionType \cup {"DELETE_ALL"}
LlmSelected == {Null, EmptyStr, "r1", ForeignId, NotADict}

\* kind "raise": the call raises or the content is not JSON (both reach the
\* same except clause); kind "json": the content parses to this object
DeciderResponses ==
    { r \in [kind : {"raise", "json"},
             fields : {ActionFields, ActionFields \ {"clarify"}},
             action_type : LlmActionTypes,
             resource_id : LlmSelected,
             required : BOOLEAN,
             executor_resource_id : {Null, "r1", ForeignId}] :
        /\ r.kind # "json" =>
              /\ r.fields = ActionFields /\ r.action_type = "FALLBACK"
              /\ r.resource_id = Null
        /\ r.fields # ActionFields =>
              r.action_type = "RETURN_RESULT" /\ r.resource_id = "r1"
        /\ r.action_type \in {"ASK_CLARIFY", "FALLBACK", "DELETE_ALL"} =>
              r.resource_id = Null
        /\ r.action_type # "EXECUTE_WORKFLOW" =>
              r.required = FALSE /\ r.executor_resource_id = Null
        /\ r.action_type = "EXECUTE_WORKFLOW" =>
              /\ <<r.required, r.executor_resource_id>> \in
                    {<<TRUE, "r1">>, <<TRUE, ForeignId>>, <<FALSE, Null>>}
              /\ r.resource_id \in {Null, "r1"} }

\* json.loads(content) of a "json" response
ParsedAction(r) ==
    [action_type |-> r.action_type, resource_id |-> r.resource_id,
     resource_type |-> Null, confidence |-> 0, required |-> r.required,
     executor_resource_id |-> r.executor_resource_id, fields |-> r.fields]

(***************************************************************************)
(* Decider._validate_action: "true", "false" or "raise"                    *)
(***************************************************************************)
CandidateIds(cands) ==
    {IF cands[i].resource_id = Missing THEN Null ELSE cands[i].resource_id :
        i \in 1..Len(cands)}

ValidateAction(a, cands) ==
    IF ~(ActionFields \subseteq a.fields) THEN "false"
    ELSE IF a.resource_id = NotADict THEN "raise"
    ELSE IF Truthy(a.resource_id) /\ a.resource_id \notin CandidateIds(cands)
         THEN "false"
    ELSE "true"

(***************************************************************************)
(* Decider._fallback_decision                                              *)
(***************************************************************************)
\* MaxIndex keeping the last of the candidates that hold the largest key
RECURSIVE MaxIndexLast(_, _, _)
MaxIndexLast(cands, i, best) ==
    IF i > Len(cands) THEN best
    ELSE IF Total(cands[i]) >= Total(cands[best])
         THEN MaxIndexLast(cands, i + 1, i)
         ELSE MaxIndexLast(cands, i + 1, best)

\* max(candidates, key=total): the first candidate holding the largest key
RECURSIVE MaxIndex(_, _, _)
MaxIndex(cands, i, best) ==
    IF i > Len(cands) THEN best
    ELSE IF Total(cands[i]) > Total(cands[best])
         THEN MaxIndex(cands, i + 1, i)
         ELSE MaxIndex(cands, i + 1, best)

FallbackDecision(cands, n) ==
    IF Len(cands) = 0
    THEN Returned(MkAction("FALLBACK", Null, Null, 0), n)
    ELSE LET best == cands[MaxIndex(cands, 1, 1)]
         IN  IF best.resource_id = Missing
             THEN Raised(n)
             ELSE Returned(MkAction("RETURN_RESULT", best.resource_id,
                                    best.resource_type, Total(best)), n)

(***************************************************************************)
(* Decider._llm_decide: one pass of the retry loop body, for attempt in    *)
(* range(max_retries).  calls counts the requests sent so far.             *)
(***************************************************************************)
Retry(n) == [outcome |-> "retry", action |-> NoAction, calls |-> n]

LlmAttempt(cands, r, attempt) ==
    LET calls == attempt + 1
        valid == IF r.kind = "json" THEN ValidateAction(ParsedAction(r), cands)
                 ELSE "raise"
    IN  IF valid = "true" THEN Returned(ParsedAction(r), calls)
        ELSE IF attempt < DeciderMaxRetries - 1 THEN Retry(calls)
        \* the last attempt: _fallback_decision, called in the try block or in
        \* the except handler; an exception it raises leaves decide
        ELSE FallbackDecision(cands, calls)

(***************************************************************************)
(* IntentRouter (services/orchestrator/router.py)                          *)
(***************************************************************************)
Messages == {"m1", "m2"}
PlanFields == {"intent", "search_plan", "decision_goal", "constraints"}
\* search_plan: a list of entries, or a value that is no list (true, null)
ListOf(items) == [is_list |-> TRUE, items |-> items]
NotAList == [is_list |-> FALSE, items |-> <<>>]

\* SearchItem asking for five candidates
SearchItemTopFive(target, query) ==
    [target |-> target, query |-> query, tags |-> <<>>,
     resource_status |-> <<"active">>, freshness_required |-> FALSE, top_k |-> 5]

\* an entry of search_plan; tags, resource_status and freshness_required are
\* the keys of its filters
SearchItem(target, query) ==
    [target |-> target, query |-> query, tags |-> <<>>,
     resource_status |-> <<"active">>, freshness_required |-> FALSE, top_k |-> 10]

\* DefaultPlan with an empty search_plan
DefaultPlanEmpty(user_message) ==
    [fields |-> PlanFields \cup {"needs_workflow"},
     intent |-> [shape |-> "dict", has_name |-> TRUE, name |-> "OTHER", confidence |-> 5],
     search_plan |-> ListOf(<<>>),
     primary |-> "best_fit",
     ranking_rules |-> <<"correctness", "freshness", "coverage">>,
     must_return_single |-> TRUE,
     need_citations |-> TRUE, no_fabrication |-> TRUE, output_format |-> "steps"]

\* IntentRouter._default_plan
DefaultPlan(user_message) ==
    [fields |-> PlanFields \cup {"needs_workflow"},
     intent |-> [shape |-> "dict", has_name |-> TRUE, name |-> "OTHER", confidence |-> 5],
     search_plan |-> ListOf(<<SearchItem("DOC", user_message),
                             SearchItem("RESULT", user_message)>>),
     primary |-> "best_fit",
     ranking_rules |-> <<"correctness", "freshness", "coverage">>,
     must_return_single |-> TRUE,
     need_citations |-> TRUE, no_fabrication |-> TRUE, output_format |-> "steps"]

NoPlan ==
    [fields |-> {},
     intent |-> [shape |-> "null", has_name |-> FALSE, name |-> Null, confidence |-> 0],
     search_plan |-> NotAList,
     primary |-> Null, ranking_rules |-> <<>>, must_return_single |-> FALSE,
     need_citations |-> FALSE, no_fabrication |-> FALSE, output_format |-> Null]

\* the intent value of a plan the classification service sends: a mapping with
\* or without the key name, a string that does or does not contain "name", null
LlmIntents ==
    { [shape |-> "dict", has_name |-> TRUE, name |-> "KNOWLEDGE_QA", confidence |-> 9],
      [shape |-> "dict", has_name |-> FALSE, name |-> Null, confidence |-> 9],
      [shape |-> "str", has_name |-> TRUE, name |-> Null, confidence |-> 0],
      [shape |-> "str", has_name |-> FALSE, name |-> Null, confidence |-> 0],
      [shape |-> "null", has_name |-> FALSE, name |-> Null, confidence |-> 0] }

LlmSearchPlans ==
    { NotAList, ListOf(<<>>), ListOf(<<SearchItem("WORKFLOW", "q")>>),
      ListOf(<<SearchItem("DOC", "q"), SearchItem("WORKFLOW", "q")>>) }

LlmPlan(fields, intent, search_plan) ==
    [fields |-> fields, intent |-> intent, search_plan |-> search_plan,
     primary |-> "best_fit", ranking_rules |-> <<"freshness">>,
     must_return_single |-> TRUE,
     need_citations |-> FALSE, no_fabrication |-> TRUE, output_format |-> "text"]

\* kind "raise": the call raises; "badjson": the content is not JSON;
\* "json": the content parses to plan
RouterResponses ==
    {[kind |-> "raise", plan |-> NoPlan], [kind |-> "badjson", plan |-> NoPlan]}
    \cup { [kind |-> "json", plan |-> LlmPlan(f, i, sp)] :
             f \in {PlanFields, PlanFields \ {"constraints"}, PlanFields \ {"intent"}},
             i \in LlmIntents, sp \in LlmSearchPlans }

\* IntentRouter._validate_plan: "true", "false" or "raise"
ValidatePlan(plan) ==
    IF ~(PlanFields \subseteq plan.fields) THEN "false"
    \* "name" not in plan["intent"]: key test on a mapping, substring test on a
    \* string, TypeError on null
    ELSE IF plan.intent.shape = "null" THEN "raise"
    ELSE IF ~plan.intent.has_name THEN "false"
    ELSE IF ~plan.search_plan.is_list \/ Len(plan.search_plan.items) = 0 THEN "false"
    ELSE "true"

RouteReturned(plan, n) == [outcome |-> "return", plan |-> plan, calls |-> n]
RouteRetry(n) == [outcome |-> "retry", plan |-> NoPlan, calls |-> n]
RouteIdle == [outcome |-> "none", plan |-> NoPlan, calls |-> 0]

\* RouteAttempt with one retry too many
RouteAttemptExtra(user_message, r, attempt) ==
    LET calls == attempt + 1
        valid == IF r.kind = "json" THEN ValidatePlan(r.plan) ELSE "raise"
    IN  IF valid = "true" THEN RouteReturned(r.plan, calls)
        ELSE IF attempt < RouterMaxRetries THEN RouteRetry(calls)
        ELSE RouteReturned(DefaultPlan(user_message), calls)

\* one pass of the retry loop body of IntentRouter.route
RouteAttempt(user_message, r, attempt) ==
    LET calls == attempt + 1
        valid == IF r.kind = "json" THEN ValidatePlan(r.plan) ELSE "raise"
    IN  IF valid = "true" THEN RouteReturned(r.plan, calls)
        ELSE IF attempt < RouterMaxRetries - 1 THEN RouteRetry(calls)
        ELSE RouteReturned(DefaultPlan(user_message), calls)

(***************************************************************************)
(* WorkflowEngine (services/executor/workflow_engine.py)                   *)
(***************************************************************************)
\* a step of workflow_json["steps"]: its "type", OTHER for an unrecognised
\* type, NONDICT for an entry that is no mapping (step.get raises)
StepKinds == {"TOOL", "CONDITION", "TRANSFORM", "RETRIEVE", "PARALLEL", "OTHER", "NONDICT"}
\* workflow_json["steps"] is a list, or a value that cannot be iterated
StepsOf(items) == [iterable |-> TRUE, items |-> items]
BadSteps == [iterable |-> FALSE, items |-> <<>>]
WorkflowJsons == {StepsOf(st) : st \in SeqsUpTo(StepKinds, MaxSteps)} \cup {BadSteps}

\* the keys of the mapping each _execute_<type> returns
StepOutputKeys(kind) ==
    CASE kind = "TOOL" -> {"tool_id", "args", "result"}
      [] kind = "CONDITION" -> {"result"}
      [] kind = "TRANSFORM" -> {"result"}
      [] kind = "RETRIEVE" -> {"result"}
      [] kind = "PARALLEL" -> {"results"}
      [] OTHER -> {}

\* _execute_condition: the value under "result"
ConditionResult == TRUE

\* the truth of the expression a CONDITION step of the definition carries: it
\* tests the inputs and is false for in2
ConditionHolds(inputs) == inputs # "in2"

\* step["steps"] of a PARALLEL step of the definition
ParallelSubSteps == <<"TOOL", "TOOL">>

\* _execute_parallel: sub_steps is read and nothing is executed
ExecuteParallel(sub_steps) == [results |-> <<>>, executed |-> <<>>]

StepsAcc == [outputs |-> {}, errors |-> <<>>, executed |-> <<>>, tools |-> 0]

\* ExecuteStepsFrom leaving the loop at the first step that fails
RECURSIVE ExecuteStepsFromHalting(_, _, _)
ExecuteStepsFromHalting(steps, i, acc) ==
    IF i >= Len(steps) THEN acc
    ELSE LET kind == steps[i + 1]
             ran == [acc EXCEPT !.executed = Append(@, i)]
         IN  IF kind = "NONDICT"
             THEN [ran EXCEPT !.errors = Append(@, [step |-> i, code |-> "EXECUTION_ERROR"])]
             ELSE IF kind = "OTHER"
             THEN [ran EXCEPT !.errors = Append(@, [step |-> i, code |-> "UNKNOWN_STEP_TYPE"])]
             ELSE ExecuteStepsFromHalting(steps, i + 1,
                     [ran EXCEPT !.outputs = @ \cup StepOutputKeys(kind),
                                 !.tools = @ + (IF kind = "TOOL" THEN 1
                                                        ELSE IF kind = "PARALLEL"
                                                        THEN Len(ExecuteParallel(ParallelSubSteps).executed)
                                                        ELSE 0)])

\* WorkflowEngine._execute_steps: the loop over enumerate(steps) from index i
\* (0-based as in the code), then the merge of the step outputs
RECURSIVE ExecuteStepsFrom(_, _, _)
ExecuteStepsFrom(steps, i, acc) ==
    IF i >= Len(steps) THEN acc
    ELSE LET kind == steps[i + 1]
             ran == [acc EXCEPT !.executed = Append(@, i)]
         IN  IF kind = "NONDICT"
             THEN ExecuteStepsFrom(steps, i + 1,
                     [ran EXCEPT !.errors = Append(@, [step |-> i, code |-> "EXECUTION_ERROR"])])
             ELSE IF kind = "OTHER"
             THEN ExecuteStepsFrom(steps, i + 1,
                     [ran EXCEPT !.errors = Append(@, [step |-> i, code |-> "UNKNOWN_STEP_TYPE"])])
             ELSE LET out == [ran EXCEPT !.outputs = @ \cup StepOutputKeys(kind),
                                         !.tools = @ + (IF kind = "TOOL" THEN 1
                                                        ELSE IF kind = "PARALLEL"
                                                        THEN Len(ExecuteParallel(ParallelSubSteps).executed)
                                                        ELSE 0)]
                  IN  IF kind = "CONDITION" /\ ~ConditionResult
                      THEN out
                      ELSE ExecuteStepsFrom(steps, i + 1, out)

ExecuteSteps(workflow_json) == ExecuteStepsFrom(workflow_json.items, 0, StepsAcc)

\* status = "success" if not errors else "partial" if outputs else "failed"
FinalStatus(outputs, errors) ==
    IF Len(errors) = 0 THEN "success"
    ELSE IF outputs # {} THEN "partial"
    ELSE "failed"

\* the registry's workflow definitions: one workflow, wf1
WorkflowIds == {"wf1", "wf_missing"}
EngineInputs == {"in1", "in2"}
ExplicitKeys == {<<"k1">>}
NoKey == <<>>
TenantId == "t1"
UserId == "u1"

\* WorkflowEngine._generate_idempotency_key: SHA-256 of the canonical JSON,
\* modelled as the tuple it digests
GenerateIdempotencyKey(workflow_id, inputs, tenant_id, user_id) ==
    <<"sha256", workflow_id, inputs, tenant_id, user_id>>

NoRun == 0

\* workflow_def.timeout_seconds or 30, for a definition that sets none
TimeoutSeconds == 30

\* the seconds the steps of a run take: in2 is an input whose steps run past
\* the timeout
Elapsed(inputs) == IF inputs = "in2" THEN TimeoutSeconds + 1 ELSE 0

\* WorkflowEngine._check_idempotency: no lookup is made
CheckIdempotency(allRuns, idempotency_key, tenant_id) == NoRun

\* the arguments of execute; for a workflow_id that resolves to nothing the
\* inputs and the key are never read, one combination stands for all
EngineArgs ==
    { a \in [workflow_id : WorkflowIds, inputs : EngineInputs,
              idempotency_key : ExplicitKeys \cup {NoKey}] :
        a.workflow_id = "wf_missing" => (a.inputs = "in1" /\ a.idempotency_key = NoKey) }
NoArgs == [workflow_id |-> "wf_missing", inputs |-> "in1", idempotency_key |-> NoKey]
NoRet == [kind |-> "none", run_id |-> NoRun, status |-> "none", from_cache |-> FALSE,
          exc |-> "none"]

\* NotFound handed back as a return value
NotFoundSilent == [NoRet EXCEPT !.kind = "return", !.status = "NOT_FOUND"]

\* lines 45-46: raise ValueError("Workflow ... not found")
NotFound == [NoRet EXCEPT !.kind = "raise", !.status = "NOT_FOUND", !.exc = "ValueError"]
NoOut == [outputs |-> {}, errors |-> <<>>, executed |-> <<>>, tools |-> 0]

Calls == {"c1", "c2"}

VARIABLES
    dPc, dCands, dResps, dResult,      \* one call of Decider.decide
    rPc, rMsg, rResps, rResult,        \* one call of IntentRouter.route
    wfJson,                            \* workflow_json of the registered workflow
    eCall,                             \* the calls of WorkflowEngine.execute
    runs, results, resources,          \* registry tables
    toolCalls,                         \* TOOL steps executed so far
    oCall,                             \* the requests handled by Orchestrator.process
    tPc, tReq, tHits, tResult,         \* one call of a retriever's retrieve
    aPc, aReq, aEvidence,              \* one call of Orchestrator._assemble_evidence
    kPc, kReq, kKeys,                   \* two calls of _generate_idempotency_key
    wPc, wReq, wScore,    \* one candidate of DocRetriever._keyword_search
    nPc, nReq, nOut,    \* one call of Answerer.generate
    bPc, bHeap, bOut    \* one call of _break_cycles

dvars == <<dPc, dCands, dResps, dResult>>
rvars == <<rPc, rMsg, rResps, rResult>>
evars == <<wfJson, eCall, runs, results, resources, toolCalls>>
ovars == <<oCall>>
tvars == <<tPc, tReq, tHits, tResult>>
avars == <<aPc, aReq, aEvidence>>
kvars == <<kPc, kReq, kKeys>>
wvars == <<wPc, wReq, wScore>>
nvars == <<nPc, nReq, nOut>>
bvars == <<bPc, bHeap, bOut>>
vars == <<dvars, rvars, evars, ovars, tvars, avars, kvars, wvars, nvars, bvars>>

(***************************************************************************)
(* Decider.decide                                                          *)
(***************************************************************************)
DInit ==
    /\ dPc = "start"
    /\ dCands \in CandidateLists
    /\ dResps = <<>>
    /\ dResult = NoHit

DOff ==
    /\ dPc = "off"
    /\ dCands = <<>>
    /\ dResps = <<>>
    /\ dResult = NoHit

\* decide up to the first request to the decision service
DeciderDecide ==
    /\ dPc = "start"
    /\ LET hard == ApplyHardRules(dCands)
       IN  IF hard.outcome # "none"
           THEN dResult' = hard /\ dPc' = "done"
           ELSE IF DeciderMaxRetries > 0
                THEN dResult' = Retry(0) /\ dPc' = "llm"
                ELSE dResult' = FallbackDecision(dCands, 0) /\ dPc' = "done"
    /\ UNCHANGED <<dCands, dResps, rvars, evars, ovars, tvars, avars, kvars, wvars, nvars, bvars>>

\* the decision service answers the pending request with r
DeciderLlmResponse ==
    /\ dPc = "llm"
    /\ \E r \in DeciderResponses :
          /\ dResps' = Append(dResps, r)
          /\ dResult' = LlmAttempt(dCands, r, Len(dResps))
          /\ dPc' = IF LlmAttempt(dCands, r, Len(dResps)).outcome = "retry"
                    THEN "llm" ELSE "done"
    /\ UNCHANGED <<dCands, rvars, evars, ovars, tvars, avars, kvars, wvars, nvars, bvars>>

(***************************************************************************)
(* IntentRouter.route                                                      *)
(***************************************************************************)
RInit ==
    /\ rPc = "start"
    /\ rMsg \in Messages
    /\ rResps = <<>>
    /\ rResult = RouteIdle

ROff ==
    /\ rPc = "off"
    /\ rMsg = "m1"
    /\ rResps = <<>>
    /\ rResult = RouteIdle

\* route up to the first request to the classification service
RouterRoute ==
    /\ rPc = "start"
    /\ IF RouterMaxRetries > 0
       THEN rResult' = RouteRetry(0) /\ rPc' = "llm"
       ELSE rResult' = RouteReturned(DefaultPlan(rMsg), 0) /\ rPc' = "done"
    /\ UNCHANGED <<rMsg, rResps, dvars, evars, ovars, tvars, avars, kvars, wvars, nvars, bvars>>

\* the classification service answers the pending request with r
RouterLlmResponse ==
    /\ rPc = "llm"
    /\ \E r \in RouterResponses :
          /\ rResps' = Append(rResps, r)
          /\ rResult' = RouteAttempt(rMsg, r, Len(rResps))
          /\ rPc' = IF RouteAttempt(rMsg, r, Len(rResps)).outcome = "retry"
                    THEN "llm" ELSE "done"
    /\ UNCHANGED <<rMsg, dvars, evars, ovars, tvars, avars, kvars, wvars, nvars, bvars>>

(***************************************************************************)
(* WorkflowEngine.execute.  Each registry call is its own transaction, so  *)
(* concurrent calls of execute interleave between registry calls.          *)
(***************************************************************************)
IdleCall(pc) ==
    [pc |-> pc, args |-> NoArgs, key |-> NoKey, run_id |-> NoRun, out |-> NoOut,
     ret |-> NoRet, prior |-> {}, concurrent |-> {}, exc |-> "none"]

EInit ==
    /\ wfJson \in WorkflowJsons
    /\ eCall = [c \in Calls |-> IdleCall("idle")]
    /\ runs = <<>>
    /\ results = {}
    /\ resources = {}
    /\ toolCalls = 0

EOff ==
    /\ wfJson = BadSteps
    /\ eCall = [c \in Calls |-> IdleCall("off")]
    /\ runs = <<>>
    /\ results = {}
    /\ resources = {}
    /\ toolCalls = 0

InFlight(c) == eCall[c].pc \in {"create", "steps", "update", "result", "resource", "except"}

\* lines 43-66: resolve the workflow, derive the key, check idempotency.
\* prior and concurrent are history kept for the properties: the successful
\* runs with this key whose call had returned, and the calls in flight with
\* this key, at the moment this call starts.
EngineExecute(c) ==
    /\ eCall[c].pc = "idle"
    /\ \E args \in EngineArgs :
          IF args.workflow_id # "wf1"
          THEN eCall' = [eCall EXCEPT ![c] =
                  [@ EXCEPT !.pc = "raised", !.args = args,
                            !.ret = NotFound]]
          ELSE LET key == IF args.idempotency_key # NoKey
                          THEN args.idempotency_key
                          ELSE GenerateIdempotencyKey(args.workflow_id, args.inputs,
                                                      TenantId, UserId)
                   existing == CheckIdempotency(runs, key, TenantId)
                   prior == {r \in 1..Len(runs) :
                               /\ runs[r].idempotency_key = key
                               /\ runs[r].status = "success"
                               /\ \E d \in Calls : eCall[d].pc = "done" /\ eCall[d].run_id = r}
                   conc == {d \in Calls \ {c} : InFlight(d) /\ eCall[d].key = key}
               IN  IF existing # NoRun /\ runs[existing].status = "success"
                   THEN eCall' = [eCall EXCEPT ![c] =
                           [@ EXCEPT !.pc = "done", !.args = args, !.key = key,
                                     !.prior = prior, !.concurrent = conc,
                                     !.ret = [kind |-> "return", run_id |-> existing,
                                              status |-> "success", from_cache |-> TRUE,
                                              exc |-> "none"]]]
                   ELSE eCall' = [eCall EXCEPT ![c] =
                           [@ EXCEPT !.pc = "create", !.args = args, !.key = key,
                                     !.prior = prior, !.concurrent = conc]]
    /\ UNCHANGED <<wfJson, runs, results, resources, toolCalls, dvars, rvars, ovars, tvars, avars, kvars, wvars, nvars, bvars>>

\* lines 68-77: WorkflowRunService.create_run with a fresh run_id
EngineCreateRun(c) ==
    /\ eCall[c].pc = "create"
    /\ LET run_id == Len(runs) + 1
       IN  /\ runs' = Append(runs,
                  [run_id |-> run_id, workflow_id |-> eCall[c].args.workflow_id,
                   status |-> "running", inputs |-> eCall[c].args.inputs,
                   outputs |-> {}, errors |-> <<>>,
                   idempotency_key |-> eCall[c].key])
           /\ eCall' = [eCall EXCEPT ![c] = [@ EXCEPT !.pc = "steps", !.run_id = run_id]]
    /\ UNCHANGED <<wfJson, results, resources, toolCalls, dvars, rvars, ovars, tvars, avars, kvars, wvars, nvars, bvars>>

\* lines 80-85: _execute_steps; steps that cannot be iterated raise out of it.
\* timeout_seconds is handed to _execute_steps, which never reads it, so
\* Elapsed(inputs) has no part in the outcome
EngineExecuteSteps(c) ==
    /\ eCall[c].pc = "steps"
    /\ IF ~wfJson.iterable
       THEN /\ eCall' = [eCall EXCEPT ![c] = [@ EXCEPT !.pc = "except", !.exc = "TypeError"]]
            /\ UNCHANGED toolCalls
       ELSE /\ eCall' = [eCall EXCEPT ![c] =
                   [@ EXCEPT !.pc = "update", !.out = ExecuteSteps(wfJson)]]
            /\ toolCalls' = toolCalls + ExecuteSteps(wfJson).tools
    /\ UNCHANGED <<wfJson, runs, results, resources, dvars, rvars, ovars, tvars, avars, kvars, wvars, nvars, bvars>>

\* an update without the filter on run_id
UpdateEveryRun(allRuns, run_id, status, outputs, errors) ==
    [r \in 1..Len(allRuns) |->
        [allRuns[r] EXCEPT !.status = status, !.outputs = outputs, !.errors = errors]]

\* WorkflowRunService.update_run_status
UpdateRunStatus(allRuns, run_id, status, outputs, errors) ==
    [allRuns EXCEPT ![run_id] =
        [@ EXCEPT !.status = status, !.outputs = outputs, !.errors = errors]]

EngineReturn(c, status) ==
    [kind |-> "return", run_id |-> eCall[c].run_id, status |-> status, from_cache |-> FALSE,
     exc |-> "none"]

\* lines 87-97: the terminal status is written; a Result follows on success
EngineUpdateStatus(c) ==
    /\ eCall[c].pc = "update"
    /\ LET out == eCall[c].out
           status == FinalStatus(out.outputs, out.errors)
       IN  /\ runs' = UpdateRunStatus(runs, eCall[c].run_id, status, out.outputs, out.errors)
           /\ eCall' = [eCall EXCEPT ![c] =
                  IF status = "success" /\ out.outputs # {}
                  THEN [@ EXCEPT !.pc = "result"]
                  ELSE [@ EXCEPT !.pc = "done", !.ret = EngineReturn(c, status)]]
    /\ UNCHANGED <<wfJson, results, resources, toolCalls, dvars, rvars, ovars, tvars, avars, kvars, wvars, nvars, bvars>>

\* _create_result, lines 267-303: ResultService.create_result, which the
\* registry accepts or rejects (a raised database error)
EngineCreateResult(c) ==
    /\ eCall[c].pc = "result"
    /\ \E accepted \in BOOLEAN :
          IF accepted
          THEN /\ results' = results \cup
                      {[result_id |-> eCall[c].run_id, run_id |-> eCall[c].run_id,
                        inputs |-> eCall[c].args.inputs]}
               /\ eCall' = [eCall EXCEPT ![c] = [@ EXCEPT !.pc = "resource"]]
          ELSE /\ eCall' = [eCall EXCEPT ![c] =
                      [@ EXCEPT !.pc = "except", !.exc = "ResultError"]]
               /\ UNCHANGED results
    /\ UNCHANGED <<wfJson, runs, resources, toolCalls, dvars, rvars, ovars, tvars, avars, kvars, wvars, nvars, bvars>>

\* _create_result, lines 305-318: ResourceService.create_resource, then the
\* return of execute (lines 107-114)
EngineCreateResource(c) ==
    /\ eCall[c].pc = "resource"
    /\ \E accepted \in BOOLEAN :
          IF accepted
          THEN /\ resources' = resources \cup {eCall[c].run_id}
               /\ eCall' = [eCall EXCEPT ![c] =
                      [@ EXCEPT !.pc = "done", !.ret = EngineReturn(c, "success")]]
          ELSE /\ eCall' = [eCall EXCEPT ![c] =
                      [@ EXCEPT !.pc = "except", !.exc = "ResourceError"]]
               /\ UNCHANGED resources
    /\ UNCHANGED <<wfJson, runs, results, toolCalls, dvars, rvars, ovars, tvars, avars, kvars, wvars, nvars, bvars>>

\* ExceptionErrors without an entry
ExceptionErrorsNone == <<>>

ExceptionErrors == <<[step |-> 0 - 1, code |-> "EXCEPTION"]>>

\* lines 116-123: the except clause marks the run failed and re-raises;
\* outputs is not passed, so the stored outputs stay
EngineExcept(c) ==
    /\ eCall[c].pc = "except"
    /\ runs' = UpdateRunStatus(runs, eCall[c].run_id, "failed",
                               runs[eCall[c].run_id].outputs, ExceptionErrors)
    /\ eCall' = [eCall EXCEPT ![c] =
           [@ EXCEPT !.pc = "raised",
                     !.ret = [kind |-> "raise", run_id |-> eCall[c].run_id,
                              status |-> "failed", from_cache |-> FALSE,
                              exc |-> eCall[c].exc]]]
    /\ UNCHANGED <<wfJson, results, resources, toolCalls, dvars, rvars, ovars, tvars, avars, kvars, wvars, nvars, bvars>>

\* run_workflow (services/chat_api/workflow_api.py): the endpoint answers with
\* what execute returned, or with HTTP 400 carrying str(e) of what it raised
RunWorkflow(ret) ==
    IF ret.kind = "raise"
    THEN [status_code |-> 400, detail |-> ret.status, run_id |-> NoRun]
    ELSE [status_code |-> 200, detail |-> "none", run_id |-> ret.run_id]

(***************************************************************************)
(* Orchestrator.process (services/orchestrator/orchestrator.py) and the    *)
(* /v1/chat endpoint (services/chat_api/main.py).  The stages it drives    *)
(* are an environment here: each returns a value or raises an exception    *)
(* that carries a message.  The endpoint awaits nothing while process      *)
(* runs, so one request is processed at a time.                            *)
(***************************************************************************)
Requests == {"q1", "q2"}
\* the requests in their order of arrival
RequestOrder == <<"q1", "q2">>
SessionIds == {Null, "s1"}
ExcMessages == {"e1", "e2"}
\* str(e) of the AttributeError raised by .get on a string
AttrErrorMessage == "e_attr"
GenericAnswer == "generic_error_answer"
AnswerText == "answer_text"

TraceId(q) == <<"trace", q>>

\* the plans route hands back: the search_plan targets and the shape of intent
OrchPlans ==
    { [targets |-> t, intent |-> "dict"] :
          t \in {<<>>, <<"DOC">>, <<"DOC", "RESULT">>, <<"WORKFLOW", "STRUCTURED">>} }
    \cup { [targets |-> <<"DOC">>, intent |-> "str"] }
NoOrchPlan == [targets |-> <<>>, intent |-> "none"]

NoResponse ==
    [kind |-> "none", session_id |-> Missing, trace_id |-> <<>>, answer |-> Missing,
     intent |-> Missing, action_type |-> Missing, error |-> Missing,
     run_id |-> Missing, candidates_count |-> 0]

\* lines 181-195: the dict process returns after the answerer
SuccessResponse(session_id, trace_id, action_type, run_id, ncands) ==
    [kind |-> "return",
     session_id |-> IF Truthy(session_id) THEN session_id ELSE EmptyStr,
     trace_id |-> trace_id, answer |-> AnswerText,
     intent |-> "KNOWLEDGE_QA", action_type |-> action_type, error |-> Missing,
     run_id |-> run_id, candidates_count |-> ncands]

\* ProcessExcept letting the exception leave process
ProcessExceptReraise(session_id, trace_id, e) ==
    [NoResponse EXCEPT !.kind = "raise", !.error = e]

\* lines 197-209: the except clause of process; e is str(e)
ProcessExcept(session_id, trace_id, e) ==
    [kind |-> "return",
     session_id |-> IF Truthy(session_id) THEN session_id ELSE EmptyStr,
     trace_id |-> trace_id, answer |-> GenericAnswer,
     intent |-> "OTHER", action_type |-> "FALLBACK", error |-> e,
     run_id |-> Missing, candidates_count |-> 0]

\* chat, lines 88-105: the ChatResponse built from the dict process returned;
\* plan, action and candidates_count are added to meta under show_routing
ChatResponse(result, show_routing) ==
    [session_id |-> result.session_id, answer |-> result.answer,
     meta |-> [intent |-> result.intent, action_type |-> result.action_type,
               error |-> result.error, run_id |-> result.run_id,
               candidates_count |-> IF show_routing THEN result.candidates_count ELSE 0]]

IdleRequest(pc) ==
    [pc |-> pc, session_id |-> Null, show_routing |-> FALSE, plan |-> NoOrchPlan,
     idx |-> 0, ncands |-> 0, action_type |-> Missing, run_id |-> Missing,
     failed |-> "none", resp |-> NoResponse,
     rcalls |-> 0, lookup |-> "none", execs |-> 0]

\* InvokesExecute asking only for the executor resource
InvokesExecuteOnResource(lookup) == lookup \in {"both", "no_workflow"}

\* lines 148-152: execute is called when get_resource and
\* get_workflow_by_resource_id both find a row under the tenant
InvokesExecute(lookup) == lookup = "both"

OInit == oCall = [q \in Requests |-> IdleRequest("idle")]
OOff == oCall = [q \in Requests |-> IdleRequest("off")]

\* the stage at pc raised e: the except clause builds the response, the locals
\* of the call are gone
OrchFail(q, e) ==
    [IdleRequest("done") EXCEPT
        !.session_id = oCall[q].session_id, !.show_routing = oCall[q].show_routing,
        !.failed = oCall[q].pc,
        !.resp = ProcessExcept(oCall[q].session_id, TraceId(q), e)]

\* chat, lines 72-86, and process, lines 62-71
OrchestratorProcess(q) ==
    /\ oCall[q].pc = "idle"
    /\ \E i \in 1..Len(RequestOrder) :
          /\ RequestOrder[i] = q
          /\ \A j \in 1..(i - 1) : oCall[RequestOrder[j]].pc = "done"
    /\ \E sid \in SessionIds, show \in BOOLEAN :
          oCall' = [oCall EXCEPT ![q] =
                      [@ EXCEPT !.pc = "route", !.session_id = sid, !.show_routing = show]]
    /\ UNCHANGED <<dvars, rvars, evars, tvars, avars, kvars, wvars, nvars, bvars>>

\* lines 75-85: router.route
OrchestratorRoute(q) ==
    /\ oCall[q].pc = "route"
    /\ \/ \E plan \in OrchPlans :
             oCall' = [oCall EXCEPT ![q] =
                         [@ EXCEPT !.plan = plan,
                                   !.pc = IF Len(plan.targets) = 0 THEN "decide"
                                          ELSE "retrieve"]]
       \/ \E e \in ExcMessages : oCall' = [oCall EXCEPT ![q] = OrchFail(q, e)]
    /\ UNCHANGED <<dvars, rvars, evars, tvars, avars, kvars, wvars, nvars, bvars>>

\* lines 86-126: one pass of the loop over search_plan; a target without a
\* retriever is skipped
OrchestratorRetrieve(q) ==
    /\ oCall[q].pc = "retrieve"
    /\ LET target == oCall[q].plan.targets[oCall[q].idx + 1]
           nextPc == IF oCall[q].idx + 1 = Len(oCall[q].plan.targets)
                     THEN "decide" ELSE "retrieve"
       IN  IF target \in {"DOC", "WORKFLOW", "RESULT"}
           THEN \/ \E n \in {0, 1} :
                      oCall' = [oCall EXCEPT ![q] =
                                  [@ EXCEPT !.idx = @ + 1, !.ncands = @ + n,
                                            !.rcalls = @ + 1, !.pc = nextPc]]
                \/ \E e \in ExcMessages : oCall' = [oCall EXCEPT ![q] = OrchFail(q, e)]
           ELSE oCall' = [oCall EXCEPT ![q] = [@ EXCEPT !.idx = @ + 1, !.pc = nextPc]]
    /\ UNCHANGED <<dvars, rvars, evars, tvars, avars, kvars, wvars, nvars, bvars>>

\* lines 129-140: decider.decide
OrchestratorDecide(q) ==
    /\ oCall[q].pc = "decide"
    /\ \/ \E atype \in ActionType :
             oCall' = [oCall EXCEPT ![q] =
                         [@ EXCEPT !.action_type = atype,
                                   !.pc = IF atype = "EXECUTE_WORKFLOW" THEN "execute"
                                          ELSE "evidence"]]
       \/ \E e \in ExcMessages : oCall' = [oCall EXCEPT ![q] = OrchFail(q, e)]
    /\ UNCHANGED <<dvars, rvars, evars, tvars, avars, kvars, wvars, nvars, bvars>>

\* lines 141-158: the executor resource and its workflow are looked up and,
\* when both exist, workflow_engine.execute runs
OrchestratorExecute(q) ==
    /\ oCall[q].pc = "execute"
    /\ \/ \E lookup \in {"no_resource", "no_workflow", "both"} :
             oCall' = [oCall EXCEPT ![q] =
                         IF InvokesExecute(lookup)
                         THEN [@ EXCEPT !.lookup = lookup, !.execs = @ + 1,
                                        !.run_id = "run1", !.pc = "evidence"]
                         ELSE [@ EXCEPT !.lookup = lookup, !.pc = "evidence"]]
       \/ \E e \in ExcMessages : oCall' = [oCall EXCEPT ![q] = OrchFail(q, e)]
    /\ UNCHANGED <<dvars, rvars, evars, tvars, avars, kvars, wvars, nvars, bvars>>

\* lines 161-166: _assemble_evidence
OrchestratorAssemble(q) ==
    /\ oCall[q].pc = "evidence"
    /\ \/ oCall' = [oCall EXCEPT ![q] = [@ EXCEPT !.pc = "answer"]]
       \/ \E e \in ExcMessages : oCall' = [oCall EXCEPT ![q] = OrchFail(q, e)]
    /\ UNCHANGED <<dvars, rvars, evars, tvars, avars, kvars, wvars, nvars, bvars>>

\* lines 169-195: answerer.generate, then the returned dict, whose
\* plan.get("intent", {}).get("name") raises on an intent that is a string
OrchestratorAnswer(q) ==
    /\ oCall[q].pc = "answer"
    /\ \/ IF oCall[q].plan.intent = "str"
          THEN oCall' = [oCall EXCEPT ![q] = OrchFail(q, AttrErrorMessage)]
          ELSE oCall' = [oCall EXCEPT ![q] =
                  [IdleRequest("done") EXCEPT
                      !.session_id = oCall[q].session_id,
                      !.show_routing = oCall[q].show_routing,
                      !.resp = SuccessResponse(oCall[q].session_id, TraceId(q),
                                               oCall[q].action_type, oCall[q].run_id,
                                               oCall[q].ncands)]]
       \/ \E e \in ExcMessages : oCall' = [oCall EXCEPT ![q] = OrchFail(q, e)]
    /\ UNCHANGED <<dvars, rvars, evars, tvars, avars, kvars, wvars, nvars, bvars>>

(***************************************************************************)
(* Retrievers (services/retrieval/*.py).  The embedding service, the       *)
(* vector index and the registry are an environment: tHits is the list the *)
(* vector search returns, each hit joined with what the registry holds for *)
(* it; a request names the backend that fails, if any.  Scores are in      *)
(* tenths, totals in hundredths; the clock unit is the 24 hours of         *)
(* max_ttl.                                                                *)
(***************************************************************************)
TenantIds == {Null, "t1", "t2"}
TopKs == {1, 2}
RetrieverKinds == {"DOC", "WORKFLOW", "RESULT"}

\* found: the first registry lookup finds a row (get_result for a RESULT,
\* get_resource otherwise); resource: get_resource in _format_candidates does
Hit(score, keyword, found, resource, tenant, status, fresh_until) ==
    [score |-> score, keyword |-> keyword, found |-> found, resource |-> resource,
     tenant |-> tenant, status |-> status, fresh_until |-> fresh_until,
     doc |-> 1, user |-> Null]

\* a chunk of another document: chunk ids are unique in the chunk collection
\* (vector_store.py line 50) and a document has several chunks
ChunkOf(h, doc) == [h EXCEPT !.doc = doc]

\* a Result row stored with tenant_id and user_id
OwnedBy(h, tenant, user) == [h EXCEPT !.tenant = tenant, !.user = user]

DocHits ==
    {Hit(sc, k, TRUE, TRUE, Null, "active", NoFresh) : sc \in {2, 8}, k \in {0, 10}}
    \cup {Hit(8, 10, FALSE, FALSE, Null, "active", NoFresh),
          Hit(8, 10, TRUE, TRUE, Null, "deprecated", NoFresh)}
    \cup {ChunkOf(Hit(sc, 10, TRUE, TRUE, Null, "active", NoFresh), 2) : sc \in {2, 8}}

WorkflowHits ==
    {Hit(sc, 0, TRUE, TRUE, t, "active", NoFresh) : sc \in {2, 8}, t \in TenantIds}
    \cup {Hit(8, 10, TRUE, TRUE, Null, "deprecated", NoFresh),
          Hit(8, 0, FALSE, FALSE, Null, "active", NoFresh)}

ResultHits ==
    {Hit(sc, 0, TRUE, TRUE, Null, "active", f) : sc \in {2, 8}, f \in {Now - 1, Now + 1}}
    \cup {Hit(8, 0, FALSE, FALSE, Null, "active", Now + 1),
          Hit(8, 0, TRUE, FALSE, Null, "active", Now + 1)}
    \cup {OwnedBy(Hit(8, 0, TRUE, TRUE, Null, "active", Now + 1), o[1], o[2]) :
             o \in {<<"t2", "u1">>, <<"t1", "u1">>, <<"t2", "u2">>}}

HitsOf(kind) ==
    CASE kind = "DOC" -> DocHits
      [] kind = "WORKFLOW" -> WorkflowHits
      [] kind = "RESULT" -> ResultHits

\* retrieve(query, filters, top_k, context): filters carries resource_status
\* = ["active"] under status_filter and freshness_required; context carries
\* tenant_id; fail names the backend whose call raises
RetrieveRequests ==
    { r \in [kind : RetrieverKinds, top_k : TopKs, tenant_id : {Null, "t2"},
             user_id : {Null, "u1"},
             status_filter : BOOLEAN, freshness_required : BOOLEAN,
             fail : {"none", "embed", "search", "registry"}] :
        /\ r.kind = "DOC" => r.tenant_id = Null
        /\ r.user_id = (IF r.kind = "RESULT" /\ r.tenant_id = "t2" THEN "u1" ELSE Null)
        /\ r.kind # "RESULT" => r.freshness_required = FALSE
        /\ r.kind = "RESULT" => r.status_filter = FALSE
        /\ r.fail # "none" =>
              (r.tenant_id = Null /\ ~r.status_filter /\ ~r.freshness_required) }

NoRequest ==
    [kind |-> "DOC", top_k |-> 1, tenant_id |-> Null, user_id |-> Null,
     status_filter |-> FALSE,
     freshness_required |-> FALSE, fail |-> "none"]

Min(a, b) == IF a <= b THEN a ELSE b

\* seq[:n]
Take(seq, n) == SubSeq(seq, 1, Min(n, Len(seq)))

\* InsertDesc placing an element ahead of the elements of equal total
RECURSIVE InsertDescBeforeEqual(_, _)
InsertDescBeforeEqual(sorted, x) ==
    IF sorted = <<>> THEN <<x>>
    ELSE IF Head(sorted).total > x.total
         THEN <<Head(sorted)>> \o InsertDescBeforeEqual(Tail(sorted), x)
         ELSE <<x>> \o sorted

\* list.sort(key=total_score, reverse=True) is stable: an element goes behind
\* every element of greater or equal total that preceded it
RECURSIVE InsertDesc(_, _)
InsertDesc(sorted, x) ==
    IF sorted = <<>> THEN <<x>>
    ELSE IF Head(sorted).total >= x.total
         THEN <<Head(sorted)>> \o InsertDesc(Tail(sorted), x)
         ELSE <<x>> \o sorted

RECURSIVE SortDescFrom(_, _, _)
SortDescFrom(seq, i, acc) ==
    IF i > Len(seq) THEN acc
    ELSE SortDescFrom(seq, i + 1, InsertDesc(acc, seq[i]))

SortDesc(seq) == SortDescFrom(seq, 1, <<>>)

\* a scored candidate: hit is the position in the vector-search result
Scored(i, h, keyword, freshness, total) ==
    [hit |-> i, semantic |-> h.score, keyword |-> keyword, freshness |-> freshness,
     total |-> total, src |-> h]

\* cand["resource_id"] of a vector-search hit: the document of a chunk; for a
\* WORKFLOW or RESULT brief the id of the brief, unique in the brief
\* collection (vector_store.py line 111), so the position in the search result
HitResourceId(i, h, resource_type) ==
    IF resource_type = "DOC" THEN <<"doc", h.doc>> ELSE <<"brief", i>>

\* the Candidate dict of _format_candidates; tenant and fresh_until are those
\* of the registry row behind it
Formatted(c, resource_type) ==
    [hit |-> c.hit, resource_type |-> resource_type, semantic |-> c.semantic,
     keyword |-> c.keyword, freshness |-> c.freshness, total |-> c.total,
     tenant |-> c.src.tenant, fresh_until |-> c.src.fresh_until,
     resource_id |-> HitResourceId(c.hit, c.src, resource_type), user |-> c.src.user]

RECURSIVE MapFormatted(_, _)
MapFormatted(cands, resource_type) ==
    IF cands = <<>> THEN <<>>
    ELSE <<Formatted(Head(cands), resource_type)>> \o MapFormatted(Tail(cands), resource_type)

\* DocRetriever._merge_and_score: total = 0.5 semantic + 0.3 keyword
DocMergeAndScore(hits, top_k) ==
    Take(SortDesc([i \in 1..Len(hits) |->
                     Scored(i, hits[i], hits[i].keyword, 0,
                            5 * hits[i].score + 3 * hits[i].keyword)]), top_k)

\* DocRetriever._format_candidates
DocKept(c, req) ==
    /\ c.src.resource
    /\ req.status_filter => c.src.status \in {"active"}

DocRetrieve(req, hits) ==
    MapFormatted(SelectSeq(DocMergeAndScore(hits, req.top_k),
                           LAMBDA c : DocKept(c, req)), "DOC")

\* WorkflowRetriever._keyword_match and _merge_and_score: the keyword score and
\* the resource reach a candidate only when the registry holds the resource;
\* total = 0.4 semantic + 0.3 keyword + 0.3
WorkflowMergeAndScore(hits, top_k) ==
    Take(SortDesc([i \in 1..Len(hits) |->
                     LET keyword == IF hits[i].found THEN hits[i].keyword ELSE 0
                     IN  Scored(i, hits[i], keyword, 0,
                                4 * hits[i].score + 3 * keyword + 30)]), top_k)

\* WorkflowRetriever._format_candidates: the candidates that are not skipped
WorkflowKept(c, req) ==
    /\ c.src.found
    /\ ~(Truthy(req.tenant_id) /\ Truthy(c.src.tenant) /\ c.src.tenant # req.tenant_id)
    /\ req.status_filter => c.src.status \in {"active"}
    /\ c.src.status \notin {"deprecated", "disabled"}

WorkflowRetrieve(req, hits) ==
    MapFormatted(SelectSeq(WorkflowMergeAndScore(hits, req.top_k),
                           LAMBDA c : WorkflowKept(c, req)), "WORKFLOW")

\* ResultRetriever._compute_freshness_score
FreshnessScore(fresh_until, now) ==
    IF fresh_until < now THEN 0
    ELSE Min(10 * (fresh_until - now), 10)

\* GetResult without the filters on tenant_id and user_id
GetResultAnyOwner(h, tenant_id, user_id) == h.found

\* ResultService.get_result: the row of the id, under the tenant and the user
\* when they are given
GetResult(h, tenant_id, user_id) ==
    /\ h.found
    /\ Truthy(tenant_id) => h.tenant = tenant_id
    /\ Truthy(user_id) => h.user = user_id

\* ResultKept without the freshness test
ResultKeptAlways(h, req) == GetResult(h, req.tenant_id, req.user_id)

\* ResultRetriever.retrieve, lines 62-80: the hits that reach db_results
ResultKept(h, req) ==
    /\ GetResult(h, req.tenant_id, req.user_id)
    /\ ~(req.freshness_required /\ h.fresh_until < Now)

\* ResultRetriever._merge_and_score without inputs in the context:
\* total = 0.3 semantic + 0.4 freshness + 0.1 * 0.5 + 0.2 * 0.5
ResultMergeAndScore(hits, req) ==
    LET all == [i \in 1..Len(hits) |->
                  LET f == FreshnessScore(hits[i].fresh_until, Now)
                  IN  Scored(i, hits[i], 0, f, 3 * hits[i].score + 4 * f + 5 + 10)]
        db_results == SelectSeq(all, LAMBDA c : ResultKept(c.src, req))
    IN  Take(SortDesc(db_results), req.top_k)

\* ResultRetriever._format_candidates
ResultRetrieve(req, hits) ==
    MapFormatted(SelectSeq(ResultMergeAndScore(hits, req),
                           LAMBDA c : c.src.resource), "RESULT")

RetrieveReturned(items) == [outcome |-> "return", items |-> items]
RetrieveRaised == [outcome |-> "raise", items |-> <<>>]
RetrieveIdle == [outcome |-> "none", items |-> <<>>]

\* retrieve of the three retrievers: no call is guarded, so an exception of
\* embed_text, of the vector search or of the first registry lookup leaves it
Retrieve(req, hits) ==
    IF req.fail \in {"embed", "search"} THEN RetrieveRaised
    ELSE IF req.fail = "registry" /\ Len(hits) > 0 THEN RetrieveRaised
    ELSE RetrieveReturned(CASE req.kind = "DOC" -> DocRetrieve(req, hits)
                            [] req.kind = "WORKFLOW" -> WorkflowRetrieve(req, hits)
                            [] req.kind = "RESULT" -> ResultRetrieve(req, hits))

\* the vector search is asked for top_k * 2 results
TInit ==
    /\ tPc = "start"
    /\ tReq \in RetrieveRequests
    /\ tHits \in SeqsUpTo(HitsOf(tReq.kind), MaxCands)
    /\ Len(tHits) <= 2 * tReq.top_k
    /\ tReq.fail \in {"embed", "search"} => tHits = <<>>
    /\ tReq.fail = "registry" => Len(tHits) > 0
    /\ tResult = RetrieveIdle

TOff ==
    /\ tPc = "off"
    /\ tReq = NoRequest
    /\ tHits = <<>>
    /\ tResult = RetrieveIdle

RetrieverRetrieve ==
    /\ tPc = "start"
    /\ tResult' = Retrieve(tReq, tHits)
    /\ tPc' = "done"
    /\ UNCHANGED <<tReq, tHits, dvars, rvars, evars, ovars, avars, kvars, wvars, nvars, bvars>>

(***************************************************************************)
(* Orchestrator._assemble_evidence (services/orchestrator/orchestrator.py). *)
(* A string is the sequence of its pieces, so that concatenation is \o and *)
(* two strings are equal exactly when their pieces are.  Resource ids and  *)
(* run ids hold neither "://" nor "#".                                      *)
(***************************************************************************)
EvidenceIds == {<<"res_1">>, <<"res_2">>}
\* run_id = f"run_{timestamp}_{uuid}" (workflow_engine.py line 49)
RunIdStrings == {<<"run_", "x1">>}
NoId == <<>>

EvidenceCandidates ==
    [resource_id : EvidenceIds, resource_type : {"DOC", "RESULT", "WORKFLOW", "STRUCTURED"}]

\* exec_result: None, or the dict execute returned, with or without outputs
NoExec == [ran |-> FALSE, run_id |-> NoId, outputs |-> FALSE]
ExecResults == {NoExec} \cup [ran : {TRUE}, run_id : RunIdStrings, outputs : BOOLEAN]

\* selected: action.selected.resource_id; row: ResultService.get_result
\* finds the Result
AssembleRequests ==
    [selected : EvidenceIds \cup {NoId},
     candidates : {<<>>} \cup {<<c>> : c \in EvidenceCandidates},
     row : BOOLEAN,
     exec_result : ExecResults]
NoAssembleRequest ==
    [selected |-> NoId, candidates |-> <<>>, row |-> FALSE, exec_result |-> NoExec]

Evidence(resource_id, type, source) ==
    [resource_id |-> resource_id, type |-> type, source |-> source]

\* lines 224-229: the first candidate whose resource_id is the selected one
RECURSIVE SelectedCandidate(_, _, _)
SelectedCandidate(candidates, resource_id, i) ==
    IF i > Len(candidates) THEN <<>>
    ELSE IF candidates[i].resource_id = resource_id THEN <<candidates[i]>>
    ELSE SelectedCandidate(candidates, resource_id, i + 1)

\* lines 231-275: the entry of the selected candidate, by its resource_type
SelectedEvidence(req) ==
    LET found == SelectedCandidate(req.candidates, req.selected, 1)
        rid == req.selected
    IN  IF found = <<>> THEN <<>>
        ELSE IF found[1].resource_type = "DOC"
        THEN <<Evidence(rid, "DOC", <<"doc", "://">> \o rid \o <<"#", "chunk">>)>>
        ELSE IF found[1].resource_type = "RESULT"
        THEN IF req.row
             THEN <<Evidence(rid, "RESULT", <<"result", "://">> \o rid)>>
             ELSE <<>>
        ELSE IF found[1].resource_type = "WORKFLOW"
        THEN <<Evidence(rid, "WORKFLOW", <<"workflow", "://">> \o rid)>>
        ELSE <<>>

\* lines 277-288: the entry of an executed workflow
ExecutedEvidence(exec_result) ==
    IF exec_result.ran /\ exec_result.outputs
    THEN <<Evidence(exec_result.run_id, "RESULT",
                    <<"result", "://", "run_">> \o exec_result.run_id)>>
    ELSE <<>>

AssembleEvidence(req) == SelectedEvidence(req) \o ExecutedEvidence(req.exec_result)

\* the string after its first "://", and of that the part before the first "#"
RECURSIVE AfterScheme(_)
AfterScheme(str) ==
    IF str = <<>> THEN <<>>
    ELSE IF Head(str) = "://" THEN Tail(str)
    ELSE AfterScheme(Tail(str))

RECURSIVE BeforeFragment(_)
BeforeFragment(str) ==
    IF str = <<>> THEN <<>>
    ELSE IF Head(str) = "#" THEN <<>>
    ELSE <<Head(str)>> \o BeforeFragment(Tail(str))

StripSchemeAndFragment(source) == BeforeFragment(AfterScheme(source))

AInit ==
    /\ aPc = "start"
    /\ aReq \in AssembleRequests
    /\ aEvidence = <<>>

AOff ==
    /\ aPc = "off"
    /\ aReq = NoAssembleRequest
    /\ aEvidence = <<>>

OrchestratorAssembleEvidence ==
    /\ aPc = "start"
    /\ aEvidence' = AssembleEvidence(aReq)
    /\ aPc' = "done"
    /\ UNCHANGED <<aReq, dvars, rvars, evars, ovars, tvars, kvars, wvars, nvars, bvars>>

(***************************************************************************)
(* WorkflowEngine._generate_idempotency_key over inputs that are dicts: a  *)
(* dict is the sequence of its (key, value) items in insertion order.      *)
(***************************************************************************)
\* the keys of inputs, in the order sort_keys puts them
InputKeys == <<"a", "b">>
InputValues == {1, 2}
InputItems == {<<InputKeys[i], v>> : i \in 1..Len(InputKeys), v \in InputValues}

\* the dicts: no key twice
InputDicts ==
    {d \in SeqsUpTo(InputItems, Len(InputKeys)) :
        \A i, j \in 1..Len(d) : i # j => d[i][1] # d[j][1]}

\* two dicts are equal (==) when they hold the same items
SameDict(d1, d2) == {d1[i] : i \in 1..Len(d1)} = {d2[i] : i \in 1..Len(d2)}

\* json.dumps(..., sort_keys=True), line 245: the items by ascending key
RECURSIVE SortKeysFrom(_, _)
SortKeysFrom(d, i) ==
    IF i > Len(InputKeys) THEN <<>>
    ELSE LET at == {k \in 1..Len(d) : d[k][1] = InputKeys[i]}
         IN  (IF at = {} THEN <<>> ELSE <<d[CHOOSE k \in at : TRUE]>>)
             \o SortKeysFrom(d, i + 1)

\* SortKeys keeping the insertion order (json.dumps without sort_keys)
SortKeysInsertionOrder(d) == d

SortKeys(d) == SortKeysFrom(d, 1)

\* lines 240-246 for a dict: the digest of the dump with sorted keys
IdempotencyKeyOfDict(workflow_id, d, tenant_id, user_id) ==
    GenerateIdempotencyKey(workflow_id, SortKeys(d), tenant_id, user_id)

KeyRequests ==
    [workflow_id : {"wf1", "wf2"}, tenant_id : {Null, "t1"}, user_id : {"u1"},
     first : InputDicts, second : InputDicts]
NoKeyRequest ==
    [workflow_id |-> "wf1", tenant_id |-> Null, user_id |-> "u1",
     first |-> <<>>, second |-> <<>>]

KInit ==
    /\ kPc = "start"
    /\ kReq \in KeyRequests
    /\ kKeys = <<>>

KOff ==
    /\ kPc = "off"
    /\ kReq = NoKeyRequest
    /\ kKeys = <<>>

\* the key of (workflow_id, first, tenant_id, user_id), then that of
\* (workflow_id, second, tenant_id, user_id)
EngineGenerateKey ==
    /\ kPc = "start"
    /\ LET d == IF Len(kKeys) = 0 THEN kReq.first ELSE kReq.second
       IN  kKeys' = Append(kKeys, IdempotencyKeyOfDict(kReq.workflow_id, d,
                                                      kReq.tenant_id, kReq.user_id))
    /\ kPc' = IF Len(kKeys) = 1 THEN "done" ELSE "start"
    /\ UNCHANGED <<kReq, dvars, rvars, evars, ovars, tvars, avars, wvars, nvars, bvars>>

(***************************************************************************)
(* DocRetriever._keyword_search.  A text is a sequence of pieces: a word   *)
(* piece (letters, in the case they were typed) or a separator (a run of   *)
(* characters \w does not match).  Adjacent word pieces form one token.    *)
(***************************************************************************)
MaxQueryLen == 3

Separator == " "
QueryPieces == {"reset", "Reset", "password", Separator}

\* str.lower() on a piece
Lower(piece) ==
    CASE piece = "Reset" -> "reset"
      [] piece = "How" -> "how"
      [] piece = "Password" -> "password"
      [] OTHER -> piece

LowerText(text) == [i \in 1..Len(text) |-> Lower(text[i])]

\* a tokenizer that splits between any two pieces
FindAllPieces(text, i, run) ==
    LET words == SelectSeq(text, LAMBDA piece : piece # Separator)
    IN  [k \in 1..Len(words) |-> <<words[k]>>]

\* re.findall(r'\w+', text): the maximal runs of word pieces, left to right
RECURSIVE FindAllWords(_, _, _)
FindAllWords(text, i, run) ==
    IF i > Len(text) THEN (IF run = <<>> THEN <<>> ELSE <<run>>)
    ELSE IF text[i] = Separator
         THEN (IF run = <<>> THEN <<>> ELSE <<run>>) \o FindAllWords(text, i + 1, <<>>)
         ELSE FindAllWords(text, i + 1, Append(run, text[i]))

\* set(re.findall(r'\w+', text.lower()))
Terms(text) ==
    LET found == FindAllWords(LowerText(text), 1, <<>>)
    IN  {found[i] : i \in 1..Len(found)}

\* keyword_score of one candidate, as the fraction matches / total_terms
KeywordScore(query, snippet) ==
    LET query_terms == Terms(query)
        snippet_terms == Terms(snippet)
        matches == Cardinality(query_terms \cap snippet_terms)
        total_terms == IF query_terms # {} THEN Cardinality(query_terms) ELSE 1
    IN  [matches |-> matches, total_terms |-> total_terms]

Snippets ==
    { <<"How", Separator, "to", Separator, "reset", Separator, "your", Separator, "password">>,
      <<"Reset", "password">>,
      <<"Password", Separator, "Password">>,
      <<>> }

KeywordRequests == [query : SeqsUpTo(QueryPieces, MaxQueryLen), snippet : Snippets]
NoKeywordRequest == [query |-> <<>>, snippet |-> <<>>]
NoScore == [matches |-> 0, total_terms |-> 0]

WInit ==
    /\ wPc = "start"
    /\ wReq \in KeywordRequests
    /\ wScore = NoScore

WOff ==
    /\ wPc = "off"
    /\ wReq = NoKeywordRequest
    /\ wScore = NoScore

\* _keyword_search over a list holding one candidate
DocRetrieverKeywordSearch ==
    /\ wPc = "start"
    /\ wScore' = KeywordScore(wReq.query, wReq.snippet)
    /\ wPc' = "done"
    /\ UNCHANGED wReq
    /\ UNCHANGED <<dvars, rvars, evars, ovars, tvars, avars, kvars, nvars, bvars>>

(***************************************************************************)
(* Answerer.generate (services/orchestrator/answerer.py).  The model's     *)
(* reply is an input; a text is a sequence of tokens, a citation scheme    *)
(* ("doc://", ...) being one token.                                        *)
(***************************************************************************)
CitationSchemes == {"doc://", "result://", "workflow://"}

LlmContents == {Null, <<"text">>, <<"see", "doc://", "d1">>}

AnswerEvidence ==
    { [resource_id |-> "d1", source |-> <<"doc://", "d1", "#chunk">>],
      [resource_id |-> "r1", source |-> <<>>] }

GenerateRequests ==
    [content : LlmContents, evidence : SeqsUpTo(AnswerEvidence, 2), need_citations : BOOLEAN]
NoGenerateRequest == [content |-> Null, evidence |-> <<>>, need_citations |-> FALSE]

\* lines 139-141: "doc://" in answer or "result://" in answer or ...
ContainsScheme(answer) ==
    \E i \in 1..Len(answer) : answer[i] \in CitationSchemes

AnswerReturned(value) == [kind |-> "return", value |-> value, exc |-> "none"]
AnswerRaised(exc) == [kind |-> "raise", value |-> <<>>, exc |-> exc]

\* "\n\n## 引用\n" of line 153 and the "\n" joining the lines
CitationHeading == "<citations heading>"
Newline == "<newline>"

\* any(x) of Python: x has to be iterable, a bool is not
AnyOf(x) ==
    IF x \in BOOLEAN THEN AnswerRaised("TypeError") ELSE AnswerReturned(\E i \in 1..Len(x) : x[i])

\* lines 145-150: one "[来源: id](source)" line per evidence with a source
RECURSIVE CitationLines(_)
CitationLines(evidence) ==
    IF evidence = <<>> THEN <<>>
    ELSE (IF Head(evidence).source # <<>>
          THEN << <<"[", Head(evidence).resource_id, "](">> \o Head(evidence).source \o <<")">> >>
          ELSE <<>>) \o CitationLines(Tail(evidence))

RECURSIVE JoinLines(_)
JoinLines(lines) ==
    IF lines = <<>> THEN <<>>
    ELSE IF Len(lines) = 1 THEN Head(lines)
    ELSE Head(lines) \o <<Newline>> \o JoinLines(Tail(lines))

\* lines 136-155
EnsureCitations(answer, evidence) ==
    LET has_citations == AnyOf(ContainsScheme(answer))
    IN  IF has_citations.kind = "raise" THEN has_citations
        ELSE IF ~has_citations.value /\ evidence # <<>> /\ CitationLines(evidence) # <<>>
             THEN AnswerReturned(answer \o <<CitationHeading>> \o JoinLines(CitationLines(evidence)))
             ELSE AnswerReturned(answer)

\* lines 79-85
Generate(req) ==
    LET answer == IF req.content = Null THEN <<>> ELSE req.content
    IN  IF req.need_citations THEN EnsureCitations(answer, req.evidence)
        ELSE AnswerReturned(answer)

NInit ==
    /\ nPc = "start"
    /\ nReq \in GenerateRequests
    /\ nOut = AnswerReturned(<<>>)

NOff ==
    /\ nPc = "off"
    /\ nReq = NoGenerateRequest
    /\ nOut = AnswerReturned(<<>>)

AnswererGenerate ==
    /\ nPc = "start"
    /\ nOut' = Generate(nReq)
    /\ nPc' = "done"
    /\ UNCHANGED nReq
    /\ UNCHANGED <<dvars, rvars, evars, ovars, tvars, avars, kvars, wvars, bvars>>

(***************************************************************************)
(* _break_cycles of WorkflowRunService.update_run_status.  The outputs are *)
(* a heap of container objects (maps and lists) named by their id(); an    *)
(* item of a container is the id of a container or ScalarRef, a plain      *)
(* scalar.  The keys of a map stay as they are and are left out.           *)
(***************************************************************************)
HeapNodes == {1, 2, 3}
RootNode == 1
ScalarRef == 0
ContainerKind == [n \in HeapNodes |-> IF n = 2 THEN "list" ELSE "dict"]

Heaps ==
    [HeapNodes -> SeqsUpTo(HeapNodes \cup {ScalarRef}, 2)]

ScalarLeaf == [kind |-> "scalar", items |-> <<>>]
NullLeaf == [kind |-> "null", items |-> <<>>]

\* seen.add(oid), seen.discard(oid)
Add(seen, oid) == seen \cup {oid}
DiscardNothing(seen, oid) == seen
Discard(seen, oid) == seen \ {oid}

\* the walk returns the copy and the set `seen` as the call leaves it; the
\* items of a container are walked left to right with the one set.
\* `seen or set()` gives the caller's set whenever it is not empty; an empty
\* one is replaced by a new set, which is empty again when the call returns.
RECURSIVE BreakCycles(_, _, _)
RECURSIVE BreakCyclesItems(_, _, _)
BreakCycles(heap, obj, seen) ==
    IF obj \in seen THEN [value |-> NullLeaf, seen |-> seen]
    ELSE IF obj \in HeapNodes
         THEN LET inner == BreakCyclesItems(heap, heap[obj], Add(seen, obj))
              IN  [value |-> [kind |-> ContainerKind[obj], items |-> inner.value],
                   seen |-> Discard(inner.seen, obj)]
         ELSE [value |-> ScalarLeaf, seen |-> seen]

BreakCyclesItems(heap, items, seen) ==
    IF items = <<>> THEN [value |-> <<>>, seen |-> seen]
    ELSE LET first == BreakCycles(heap, Head(items), seen)
             rest == BreakCyclesItems(heap, Tail(items), first.seen)
         IN  [value |-> <<first.value>> \o rest.value, seen |-> rest.seen]

BInit ==
    /\ bPc = "start"
    /\ bHeap \in Heaps
    /\ bOut = NullLeaf

BOff ==
    /\ bPc = "off"
    /\ bHeap = [n \in HeapNodes |-> <<>>]
    /\ bOut = NullLeaf

\* run.outputs = _break_cycles(outputs)
RegistryBreakCycles ==
    /\ bPc = "start"
    /\ bOut' = BreakCycles(bHeap, RootNode, {}).value
    /\ bPc' = "done"
    /\ UNCHANGED bHeap
    /\ UNCHANGED <<dvars, rvars, evars, ovars, tvars, avars, kvars, wvars, nvars>>

(***************************************************************************)
(* The specification: one component is exercised per behaviour             *)
(***************************************************************************)
Init ==
    \/ DInit /\ ROff /\ EOff /\ OOff /\ TOff /\ AOff /\ KOff /\ WOff /\ NOff /\ BOff
    \/ DOff /\ RInit /\ EOff /\ OOff /\ TOff /\ AOff /\ KOff /\ WOff /\ NOff /\ BOff
    \/ DOff /\ ROff /\ EInit /\ OOff /\ TOff /\ AOff /\ KOff /\ WOff /\ NOff /\ BOff
    \/ DOff /\ ROff /\ EOff /\ OInit /\ TOff /\ AOff /\ KOff /\ WOff /\ NOff /\ BOff
    \/ DOff /\ ROff /\ EOff /\ OOff /\ TInit /\ AOff /\ KOff /\ WOff /\ NOff /\ BOff
    \/ DOff /\ ROff /\ EOff /\ OOff /\ TOff /\ AInit /\ KOff /\ WOff /\ NOff /\ BOff
    \/ DOff /\ ROff /\ EOff /\ OOff /\ TOff /\ AOff /\ KInit /\ WOff /\ NOff /\ BOff
    \/ DOff /\ ROff /\ EOff /\ OOff /\ TOff /\ AOff /\ KOff /\ WInit /\ NOff /\ BOff
    \/ DOff /\ ROff /\ EOff /\ OOff /\ TOff /\ AOff /\ KOff /\ WOff /\ NInit /\ BOff
    \/ DOff /\ ROff /\ EOff /\ OOff /\ TOff /\ AOff /\ KOff /\ WOff /\ NOff /\ BInit

Next ==
    \/ DeciderDecide
    \/ DeciderLlmResponse
    \/ RouterRoute
    \/ RouterLlmResponse
    \/ \E c \in Calls : EngineExecute(c)
    \/ \E c \in Calls : EngineCreateRun(c)
    \/ \E c \in Calls : EngineExecuteSteps(c)
    \/ \E c \in Calls : EngineUpdateStatus(c)
    \/ \E c \in Calls : EngineCreateResult(c)
    \/ \E c \in Calls : EngineCreateResource(c)
    \/ \E c \in Calls : EngineExcept(c)
    \/ \E q \in Requests : OrchestratorProcess(q)
    \/ \E q \in Requests : OrchestratorRoute(q)
    \/ \E q \in Requests : OrchestratorRetrieve(q)
    \/ \E q \in Requests : OrchestratorDecide(q)
    \/ \E q \in Requests : OrchestratorExecute(q)
    \/ \E q \in Requests : OrchestratorAssemble(q)
    \/ \E q \in Requests : OrchestratorAnswer(q)
    \/ RetrieverRetrieve
    \/ OrchestratorAssembleEvidence
    \/ EngineGenerateKey
    \/ DocRetrieverKeywordSearch
    \/ AnswererGenerate
    \/ RegistryBreakCycles

Spec == Init /\ [][Next]_vars

(***************************************************************************)
(* Properties                                                              *)
(***************************************************************************)
HasId(cands, id) == \E i \in 1..Len(cands) : cands[i].resource_id = id
WellFormed(cands) == \A i \in 1..Len(cands) : cands[i].resource_id # Missing
Least(S) == CHOOSE i \in S : \A j \in S : i <= j
DeciderReturned == dPc = "done" /\ dResult.outcome = "return"

\* C1: a second execute with the same (workflow_id, inputs, tenant_id, user_id)
\* and no explicit key, started after a call that ended success has returned,
\* returns that run with from_cache = true.
C1_SecondCallFromCache ==
    \A c \in Calls :
        (/\ eCall[c].pc = "done"
         /\ eCall[c].args.idempotency_key = NoKey
         /\ eCall[c].prior # {})
        => (eCall[c].ret.from_cache /\ eCall[c].ret.run_id \in eCall[c].prior)

\* C2: of two concurrent execute calls with the same idempotency key, at most
\* one creates a run record.
C2_OneRunPerConcurrentKey ==
    \A c \in Calls : \A d \in eCall[c].concurrent :
        ~(eCall[c].run_id # NoRun /\ eCall[d].run_id # NoRun)

\* C3: an Action returned by the model-backed path selects null or the
\* resource_id of one of the candidates passed in.
C3_SelectedIdAmongCandidates ==
    (DeciderReturned /\ Len(dResps) > 0)
    => (dResult.action.resource_id = Null \/ HasId(dCands, dResult.action.resource_id))

\* C4: when a candidate (carrying a resource_id) is a RESULT with total >= 0.7
\* and a fresh_until deadline in the future, decide returns RETURN_RESULT
\* selecting the first such candidate and sends no request to the decision
\* service.
C4Qualifies(c) ==
    /\ c.resource_type = "RESULT"
    /\ c.total # NoTotal /\ 10 * c.total >= 70
    /\ c.fresh_until >= 0 /\ c.fresh_until > Now
    /\ c.resource_id # Missing

C4Qualifying == {i \in 1..Len(dCands) : C4Qualifies(dCands[i])}

C4_FreshResultShortCircuits ==
    C4Qualifying # {}
    => /\ dPc # "llm"
       /\ dResps = <<>>
       /\ dPc = "done" =>
             /\ dResult.outcome = "return"
             /\ dResult.calls = 0
             /\ dResult.action.action_type = "RETURN_RESULT"
             /\ dResult.action.resource_id = dCands[Least(C4Qualifying)].resource_id
             /\ dResult.action.resource_type = "RESULT"
             /\ dResult.action.confidence = dCands[Least(C4Qualifying)].total

\* a fresh RESULT in second place, behind a DOC that matches hard rule 2, selected
C4_Witness ==
    /\ dPc = "done"
    /\ Len(dCands) = 2
    /\ dCands[1].resource_type = "DOC" /\ dCands[1].total >= HardRuleThreshold
    /\ dCands[1].resource_id = "r1"
    /\ C4Qualifies(dCands[2]) /\ dCands[2].resource_id = "r2"
    /\ dResult.action.resource_id = "r2"

\* C5: whatever the classification service answers, the plan route returns
\* passes the validation: the four fields present, name in intent,
\* search_plan a non-empty list.
C5PlanValid(plan) ==
    /\ {"intent", "search_plan", "decision_goal", "constraints"} \subseteq plan.fields
    /\ plan.intent.shape # "null" /\ plan.intent.has_name
    /\ plan.search_plan.is_list
    /\ Len(plan.search_plan.items) > 0

C5_RouteReturnsValidPlan ==
    rPc = "done" => (rResult.outcome = "return" /\ C5PlanValid(rResult.plan))

\* unparsable text, then a plan with an empty search_plan: the default plan
C5_Witness ==
    /\ rPc = "done"
    /\ Len(rResps) = 2
    /\ rResps[1].kind = "badjson"
    /\ rResps[2].kind = "json" /\ rResps[2].plan.search_plan = ListOf(<<>>)
    /\ rResult.plan = DefaultPlan(rMsg)

\* C6: a returned Action of type EXECUTE_WORKFLOW has execution.required true
\* and an executor_resource_id that is the resource_id of a candidate.
C6_ExecuteTargetsCandidate ==
    (DeciderReturned /\ dResult.action.action_type = "EXECUTE_WORKFLOW")
    => (dResult.action.required /\ HasId(dCands, dResult.action.executor_resource_id))

\* C7: decide never raises and returns an Action with the five top-level
\* fields and an action_type of the enumeration.
C7_DecideAlwaysReturnsValidAction ==
    dPc = "done"
    => /\ dResult.outcome = "return"
       /\ ActionFields \subseteq dResult.action.fields
       /\ dResult.action.action_type \in
             {"RETURN_RESULT", "EXECUTE_WORKFLOW", "ASK_CLARIFY", "FALLBACK"}

\* C8: once a run record has left status running, its status, outputs and
\* errors never change again.
C8_RunImmutableOnceTerminal ==
    [][\A r \in 1..Len(runs) :
          runs[r].status # "running"
          => /\ runs'[r].status = runs[r].status
             /\ runs'[r].outputs = runs[r].outputs
             /\ runs'[r].errors = runs[r].errors]_vars

\* C9: route and _llm_decide send at most 2 requests to the model service per
\* invocation and have returned once 2 attempts are spent (for _llm_decide:
\* over candidates that carry a resource_id).
C9_AtMostTwoModelCalls ==
    /\ rPc = "llm" => Len(rResps) + 1 <= 2
    /\ rPc = "done" => (Len(rResps) <= 2 /\ rResult.calls = Len(rResps)
                         /\ rResult.outcome = "return")
    /\ dPc = "llm" => Len(dResps) + 1 <= 2
    /\ dPc = "done" => (Len(dResps) <= 2 /\ dResult.calls = Len(dResps)
                         /\ (WellFormed(dCands) => dResult.outcome = "return"))

\* route has returned after a raised call and an unparsable answer
C9_Witness ==
    /\ rPc = "done"
    /\ Len(rResps) = 2
    /\ rResps[1].kind = "raise" /\ rResps[2].kind = "badjson"
    /\ rResult.calls = 2

\* C10: when no hard rule fires and both attempts fail, decide returns
\* RETURN_RESULT selecting the first candidate of highest total, with that
\* total as confidence (candidates carrying a resource_id), and FALLBACK with a
\* null selection for an empty candidate list.
C10AttemptFails(r) ==
    \/ r.kind = "raise"
    \/ ~({"action_type", "selected", "reason", "execution", "clarify"} \subseteq r.fields)
    \/ r.resource_id = NotADict
    \/ (r.resource_id \notin {Null, EmptyStr} /\ ~HasId(dCands, r.resource_id))

C10BothFailed ==
    /\ dPc = "done"
    /\ Len(dResps) = 2
    /\ C10AttemptFails(dResps[1]) /\ C10AttemptFails(dResps[2])

C10Highest(i) ==
    /\ \A j \in 1..Len(dCands) : Total(dCands[j]) <= Total(dCands[i])
    /\ \A j \in 1..(i - 1) : Total(dCands[j]) < Total(dCands[i])

C10_FallbackPicksHighestTotal ==
    C10BothFailed
    => IF Len(dCands) = 0
       THEN /\ dResult.outcome = "return"
            /\ dResult.action.action_type = "FALLBACK"
            /\ dResult.action.resource_id = Null
       ELSE WellFormed(dCands)
            => /\ dResult.outcome = "return"
               /\ dResult.action.action_type = "RETURN_RESULT"
               /\ \E i \in 1..Len(dCands) :
                     /\ C10Highest(i)
                     /\ dResult.action.resource_id = dCands[i].resource_id
                     /\ dResult.action.resource_type = dCands[i].resource_type
                     /\ dResult.action.confidence = Total(dCands[i])

\* two candidates of equal positive total: the first is selected
C10_Witness ==
    /\ C10BothFailed
    /\ Len(dCands) = 2
    /\ dCands[1].resource_id = "r2" /\ dCands[2].resource_id = "r1"
    /\ Total(dCands[1]) = Total(dCands[2]) /\ Total(dCands[1]) > 0
    /\ dResult.action.resource_id = "r2"

\* C11: the hard rules are ordered.  With no qualifying RESULT and a DOC of
\* total >= 0.7 (the first such DOC carrying a resource_id), decide returns
\* RETURN_RESULT selecting that first DOC and sends no request; with both a
\* qualifying fresh RESULT and such a DOC present, the RESULT is selected; a
\* request is sent only when neither rule fired.
C11Docs ==
    {i \in 1..Len(dCands) :
        /\ dCands[i].resource_type = "DOC"
        /\ dCands[i].total # NoTotal /\ 10 * dCands[i].total >= 70}

C11_HardRulesOrdered ==
    /\ (C4Qualifying = {} /\ C11Docs # {} /\ dCands[Least(C11Docs)].resource_id # Missing)
       => /\ dPc # "llm"
          /\ dResps = <<>>
          /\ dPc = "done" =>
                /\ dResult.outcome = "return"
                /\ dResult.calls = 0
                /\ dResult.action.action_type = "RETURN_RESULT"
                /\ dResult.action.resource_id = dCands[Least(C11Docs)].resource_id
                /\ dResult.action.resource_type = "DOC"
    /\ (C4Qualifying # {} /\ C11Docs # {} /\ dPc = "done")
       => /\ dResult.outcome = "return"
          /\ dResult.action.resource_type = "RESULT"
          /\ dResult.action.resource_id = dCands[Least(C4Qualifying)].resource_id
    /\ (dPc = "llm" \/ Len(dResps) > 0) => (C4Qualifying = {} /\ C11Docs = {})

\* a stale RESULT of higher total ahead of a DOC that matches rule 2: the DOC
C11_Witness ==
    /\ dPc = "done"
    /\ Len(dCands) = 2
    /\ dCands[1].resource_type = "RESULT" /\ dCands[1].total = HardRuleThreshold + 2
    /\ dCands[1].fresh_until = Now - 1 /\ dCands[1].resource_id = "r1"
    /\ dCands[2].resource_type = "DOC" /\ dCands[2].total = HardRuleThreshold
    /\ dCands[2].resource_id = "r2"
    /\ dResult.calls = 0
    /\ dResult.action.resource_id = "r2"

\* C12: process never raises: when a stage (router, a retriever, the decider,
\* the workflow engine, evidence assembly, the answerer) raises, process
\* returns a response with session_id, trace_id, the fixed generic answer and
\* meta.action_type FALLBACK.
C12_ProcessNeverRaises ==
    \A q \in Requests :
        /\ oCall[q].resp.kind # "raise"
        /\ oCall[q].pc = "done" => oCall[q].resp.kind = "return"
        /\ (oCall[q].pc = "done" /\ oCall[q].failed # "none")
           => /\ oCall[q].resp.session_id =
                    (IF oCall[q].session_id = Null THEN "" ELSE oCall[q].session_id)
              /\ oCall[q].resp.trace_id = TraceId(q)
              /\ oCall[q].resp.answer = GenericAnswer
              /\ oCall[q].resp.action_type = "FALLBACK"

\* the workflow engine raised during a request that carries a session id
C12_Witness ==
    \E q \in Requests :
        /\ oCall[q].pc = "done"
        /\ oCall[q].failed = "execute"
        /\ oCall[q].session_id = "s1"
        /\ oCall[q].resp.answer = GenericAnswer

\* C13: two failed requests that differ only in the exception message get
\* responses (from process, and from /v1/chat) that are identical apart from
\* trace_id.
C13_ErrorResponseHidesException ==
    \A q1 \in Requests : \A q2 \in Requests :
        (/\ oCall[q1].pc = "done" /\ oCall[q2].pc = "done"
         /\ oCall[q1].failed # "none" /\ oCall[q1].failed = oCall[q2].failed
         /\ oCall[q1].session_id = oCall[q2].session_id
         /\ oCall[q1].show_routing = oCall[q2].show_routing)
        => /\ [oCall[q1].resp EXCEPT !.trace_id = <<>>] =
              [oCall[q2].resp EXCEPT !.trace_id = <<>>]
           /\ ChatResponse(oCall[q1].resp, oCall[q1].show_routing) =
              ChatResponse(oCall[q2].resp, oCall[q2].show_routing)

\* C14: retrieve of the three retrievers never raises; when the embedding
\* service, the vector index or a registry lookup fails it returns [].
C14_RetrieversNeverRaise ==
    tPc = "done"
    => /\ tResult.outcome = "return"
       /\ tReq.fail # "none" => tResult.items = <<>>

\* C15: the list a retriever returns has at most top_k elements, in order of
\* non-increasing scores.total, elements of equal total in the order of the
\* vector-search result.
C15_SortedAndTruncated ==
    (tPc = "done" /\ tResult.outcome = "return")
    => /\ Len(tResult.items) <= tReq.top_k
       /\ \A i \in 1..Len(tResult.items) : \A j \in 1..Len(tResult.items) :
             i < j => /\ tResult.items[i].total >= tResult.items[j].total
                      /\ tResult.items[i].total = tResult.items[j].total
                            => tResult.items[i].hit < tResult.items[j].hit

\* two candidates of equal total returned in the order of the vector search
C15_Witness ==
    /\ tPc = "done"
    /\ tReq.top_k = 2
    /\ Len(tResult.items) = 2
    /\ tResult.items[1].total = tResult.items[2].total
    /\ tResult.items[1].hit = 1 /\ tResult.items[2].hit = 2

\* C16: WorkflowRetriever.retrieve returns no candidate whose resource belongs
\* to a tenant other than the tenant of the request.
C16_NoForeignTenantWorkflow ==
    (tPc = "done" /\ tReq.kind = "WORKFLOW")
    => \A i \in 1..Len(tResult.items) :
          tResult.items[i].tenant # Null => tResult.items[i].tenant = tReq.tenant_id

C18_TimeoutMarksRunFailed ==
    \A c \in Calls :
        (/\ eCall[c].pc \in {"done", "raised"}
         /\ eCall[c].run_id # NoRun
         /\ Elapsed(eCall[c].args.inputs) > TimeoutSeconds)
        => /\ runs[eCall[c].run_id].status = "failed"
           /\ \E k \in 1..Len(runs[eCall[c].run_id].errors) :
                 runs[eCall[c].run_id].errors[k].code = "TIMEOUT"

\* C19: the terminal status of a run is success exactly when no error was
\* recorded, partial when an error was recorded and the outputs are non-empty,
\* failed when an error was recorded and the outputs are empty; execute
\* returns the status it wrote.
C19_TerminalStatusFromErrors ==
    /\ \A r \in 1..Len(runs) :
          runs[r].status # "running"
          => /\ runs[r].status = "success" <=> Len(runs[r].errors) = 0
             /\ runs[r].status = "partial"
                   <=> (Len(runs[r].errors) > 0 /\ runs[r].outputs # {})
             /\ runs[r].status = "failed"
                   <=> (Len(runs[r].errors) > 0 /\ runs[r].outputs = {})
    /\ \A c \in Calls :
          (eCall[c].pc = "done" /\ eCall[c].run_id # NoRun)
          => eCall[c].ret.status = runs[eCall[c].run_id].status

\* C20: every persisted Result derives from a run whose status is success.
C20_ResultOnlyForSuccessfulRun ==
    \A res \in results : runs[res.run_id].status = "success"

\* the calls whose _execute_steps has returned
StepsRan(c) ==
    /\ eCall[c].pc \in {"update", "result", "resource", "done", "except", "raised"}
    /\ eCall[c].run_id # NoRun
    /\ ~eCall[c].ret.from_cache
    /\ wfJson.iterable

\* the indices (from 0) of the steps of the workflow that have the kind
StepsOfKind(kind) == {i \in 0..(Len(wfJson.items) - 1) : wfJson.items[i + 1] = kind}

\* the positions of the errors that name the step
ErrorsOfStep(errors, i) == {k \in 1..Len(errors) : errors[k].step = i}

\* C21: whenever execute returns a run that ended success, it has persisted a
\* Result that derives from the run and its inputs, and a Resource of type
\* RESULT with the same id.
C21_SuccessPersistsResult ==
    \A c \in Calls :
        (/\ eCall[c].pc = "done"
         /\ eCall[c].ret.status = "success"
         /\ ~eCall[c].ret.from_cache)
        => /\ \E res \in results :
                 /\ res.run_id = eCall[c].run_id
                 /\ res.inputs = eCall[c].args.inputs
                 /\ res.result_id \in resources
           /\ runs[eCall[c].run_id].status = "success"

\* C22: a step of an unrecognised type adds exactly one UNKNOWN_STEP_TYPE
\* error that carries its index, a step that raises adds exactly one
\* EXECUTION_ERROR error that carries its index, and the steps after it are
\* still executed, in order.
C22_StepErrorsDoNotStopTheLoop ==
    \A c \in Calls :
        StepsRan(c)
        => LET out == eCall[c].out
               n == Len(wfJson.items)
           IN  /\ \A i \in StepsOfKind("OTHER") :
                     /\ Cardinality(ErrorsOfStep(out.errors, i)) = 1
                     /\ \A k \in ErrorsOfStep(out.errors, i) :
                           out.errors[k].code = "UNKNOWN_STEP_TYPE"
               /\ \A i \in StepsOfKind("NONDICT") :
                     /\ Cardinality(ErrorsOfStep(out.errors, i)) = 1
                     /\ \A k \in ErrorsOfStep(out.errors, i) :
                           out.errors[k].code = "EXECUTION_ERROR"
               /\ \A i \in StepsOfKind("OTHER") \cup StepsOfKind("NONDICT") :
                     \A j \in (i + 1)..(n - 1) :
                        /\ Len(out.executed) >= j + 1
                        /\ out.executed[j + 1] = j

C22_Witness ==
    \E c \in Calls :
        /\ StepsRan(c)
        /\ eCall[c].pc = "done"
        /\ Len(wfJson.items) = 2
        /\ wfJson.items[1] \in {"OTHER", "NONDICT"}
        /\ wfJson.items[2] = "TOOL"
        /\ eCall[c].out.executed = <<0, 1>>
        /\ Len(eCall[c].out.errors) = 1
        /\ eCall[c].out.tools = 1

\* C23: when the condition of a CONDITION step is false, the step's own
\* output is recorded and no later step is executed.
C23_FalseConditionHalts ==
    \A c \in Calls :
        StepsRan(c)
        => \A i \in StepsOfKind("CONDITION") :
              ~ConditionHolds(eCall[c].args.inputs)
              => /\ "result" \in eCall[c].out.outputs
                 /\ \A k \in 1..Len(eCall[c].out.executed) : eCall[c].out.executed[k] <= i

C25_NotFoundLeavesRegistry ==
    [][\A c \in Calls :
          (/\ eCall[c].pc = "idle"
           /\ eCall'[c].pc # "idle"
           /\ eCall'[c].args.workflow_id = "wf_missing")
          => /\ eCall'[c].pc = "raised"
             /\ eCall'[c].ret.kind = "raise"
             /\ eCall'[c].ret.exc = "ValueError"
             /\ RunWorkflow(eCall'[c].ret) =
                   [status_code |-> 400, detail |-> "NOT_FOUND", run_id |-> NoRun]
             /\ eCall'[c].run_id = NoRun
             /\ UNCHANGED <<runs, results, resources, toolCalls>>]_vars

C25_Witness ==
    \E c \in Calls :
        /\ eCall[c].pc = "raised"
        /\ eCall[c].args.workflow_id = "wf_missing"
        /\ eCall[c].ret = NotFound
        /\ Len(runs) = 1
        /\ \A r \in 1..Len(runs) : runs[r].workflow_id = "wf1"

\* C26: a PARALLEL step executes every one of its sub-steps before the step
\* after it: the TOOL executions of a run count the sub-steps of each
\* PARALLEL step with the TOOL steps.
C26_ParallelRunsSubSteps ==
    \A c \in Calls :
        StepsRan(c)
        => eCall[c].out.tools =
              Cardinality(StepsOfKind("TOOL"))
              + Cardinality(StepsOfKind("PARALLEL")) * Len(ParallelSubSteps)

\* C28: for a request whose retrieval yields an empty candidate pool, the
\* decision is FALLBACK with a null selected resource id, in decide and in
\* the response of process, and the answer is not empty.
C28_EmptyPoolFallsBack ==
    /\ (dPc = "done" /\ Len(dCands) = 0)
       => /\ dResult.outcome = "return"
          /\ dResult.action.action_type = "FALLBACK"
          /\ dResult.action.resource_id = Null
    /\ \A q \in Requests :
          (/\ oCall[q].pc = "done"
           /\ oCall[q].resp.kind = "return"
           /\ oCall[q].resp.error = Missing
           /\ oCall[q].resp.candidates_count = 0)
          => /\ oCall[q].resp.action_type = "FALLBACK"
             /\ oCall[q].resp.answer # EmptyStr

\* an attempt of route fails when the call raises, the content is not JSON,
\* or the plan does not pass _validate_plan
C30AttemptFailed(r) == r.kind # "json" \/ ValidatePlan(r.plan) # "true"

C30BothFailed ==
    /\ rPc = "done"
    /\ Len(rResps) = 2
    /\ C30AttemptFailed(rResps[1]) /\ C30AttemptFailed(rResps[2])

\* C30: when both classification attempts fail, route returns the default
\* plan, which depends on the message only: intent OTHER at confidence 0.5,
\* the two search_plan entries DOC then RESULT with the message as query,
\* top_k 10, no tags and status active, primary best_fit with the ranking
\* rules correctness, freshness, coverage, and constraints that require
\* citations, forbid fabrication and set the output format steps.
C30_DefaultPlanAfterTwoFailures ==
    C30BothFailed
    => LET plan == rResult.plan
           sp == plan.search_plan
       IN  /\ rResult.outcome = "return"
           /\ plan.intent.shape = "dict"
           /\ plan.intent.name = "OTHER"
           /\ plan.intent.confidence = 5
           /\ sp.is_list
           /\ Len(sp.items) = 2
           /\ sp.items[1].target = "DOC" /\ sp.items[2].target = "RESULT"
           /\ \A k \in 1..2 :
                 /\ sp.items[k].query = rMsg
                 /\ sp.items[k].top_k = 10
                 /\ sp.items[k].tags = <<>>
                 /\ sp.items[k].resource_status = <<"active">>
           /\ plan.primary = "best_fit"
           /\ plan.ranking_rules = <<"correctness", "freshness", "coverage">>
           /\ plan.need_citations
           /\ plan.no_fabrication
           /\ plan.output_format = "steps"

\* two parsed plans that both fail the validation, for the message m2
C30_Witness ==
    /\ C30BothFailed
    /\ rMsg = "m2"
    /\ rResps[1].kind = "json" /\ rResps[2].kind = "json"
    /\ ValidatePlan(rResps[1].plan) = "false"
    /\ ValidatePlan(rResps[2].plan) = "raise"
    /\ rResult.plan.search_plan.items[2].query = "m2"

\* C27: for every Evidence entry _assemble_evidence builds, stripping the
\* scheme and the fragment from citation.source yields the entry's resource_id.
C27_CitationRoundTrips ==
    aPc = "done"
    => \A k \in 1..Len(aEvidence) :
          StripSchemeAndFragment(aEvidence[k].source) = aEvidence[k].resource_id

\* C29: the idempotency key does not depend on the insertion order of the
\* keys of inputs: two dicts that hold the same items give the same key for
\* the same workflow, tenant and user.
C29_KeyIgnoresInsertionOrder ==
    (kPc = "done" /\ SameDict(kReq.first, kReq.second)) => kKeys[1] = kKeys[2]

\* {a: 1, b: 2} and {b: 2, a: 1}
C29_Witness ==
    /\ kPc = "done"
    /\ kReq.first = <<<<"a", 1>>, <<"b", 2>>>>
    /\ kReq.second = <<<<"b", 2>>, <<"a", 1>>>>
    /\ kReq.tenant_id = "t1"
    /\ kKeys[1] = kKeys[2]

C38_OnlyOwnResults ==
    (/\ tPc = "done"
     /\ tReq.kind = "RESULT"
     /\ Truthy(tReq.tenant_id) /\ Truthy(tReq.user_id))
    => \A i \in 1..Len(tResult.items) :
          /\ tResult.items[i].tenant = tReq.tenant_id
          /\ tResult.items[i].user = tReq.user_id

\* a Result of another user ranks first in the vector search and is left out
C38_Witness ==
    /\ tPc = "done"
    /\ tReq.kind = "RESULT" /\ tReq.tenant_id = "t2" /\ tReq.user_id = "u1"
    /\ Len(tHits) = 2
    /\ tHits[1].tenant = "t2" /\ tHits[1].user = "u2" /\ tHits[1].found
    /\ tHits[2].tenant = "t2" /\ tHits[2].user = "u1"
    /\ Len(tResult.items) = 1
    /\ tResult.items[1].hit = 2

\* the request is past the retrieval loop and has not returned
PastRetrieval(q) == oCall[q].pc \in {"decide", "execute", "evidence", "answer"}

\* C31: for every entry of search_plan, whatever its target, process makes
\* exactly one retriever call.
C31_OneRetrieverCallPerEntry ==
    \A q \in Requests :
        PastRetrieval(q) => oCall[q].rcalls = Len(oCall[q].plan.targets)

\* C37: within one call of process, execute is invoked at most once, and only
\* for the action EXECUTE_WORKFLOW when the executor resource and its workflow
\* definition both resolve; otherwise nothing is executed and the pipeline
\* goes on to the evidence and the answer with run_id null.
C37_ExecuteOnlyWhenResolved ==
    \A q \in Requests :
        /\ oCall[q].execs <= 1
        /\ oCall[q].execs = 1
           => (oCall[q].action_type = "EXECUTE_WORKFLOW" /\ oCall[q].lookup = "both")
        /\ (/\ oCall[q].pc \in {"evidence", "answer"}
            /\ \/ oCall[q].action_type # "EXECUTE_WORKFLOW"
               \/ oCall[q].lookup \in {"no_resource", "no_workflow"})
           => (oCall[q].execs = 0 /\ oCall[q].run_id = Missing)
        /\ (/\ oCall[q].pc = "done"
            /\ oCall[q].failed = "none"
            /\ oCall[q].resp.action_type # "EXECUTE_WORKFLOW")
           => oCall[q].resp.run_id = Missing

\* the executor resource resolves, its workflow definition does not, and the
\* request has reached the answer stage without a run
C37_Witness ==
    \E q \in Requests :
        /\ oCall[q].pc = "answer"
        /\ oCall[q].action_type = "EXECUTE_WORKFLOW"
        /\ oCall[q].lookup = "no_workflow"
        /\ oCall[q].execs = 0
        /\ oCall[q].run_id = Missing

\* the list one retriever returns: candidates of one type in the order of
\* non-increasing total
OneRetrieval(cands) ==
    \A i \in 1..Len(cands) : \A j \in 1..Len(cands) :
        i < j => /\ cands[i].resource_type = cands[j].resource_type
                 /\ Total(cands[i]) >= Total(cands[j])

\* all_candidates of process for a plan of two entries: the results of the
\* first entry followed by those of the second
ConcatOfTwoRetrievals(cands) ==
    \E k \in 0..Len(cands) :
        /\ OneRetrieval(SubSeq(cands, 1, k))
        /\ OneRetrieval(SubSeq(cands, k + 1, Len(cands)))

\* C35: the candidates reach decide sorted by total, so whenever hard rule 1
\* fires the selected candidate has the highest total among the fresh RESULT
\* candidates with total >= 0.7 of the pool, also when the pool is the
\* concatenation of the results of several plan entries.
C35_Rule1PicksHighestTotal ==
    (dPc = "done" /\ C4Qualifying # {} /\ ConcatOfTwoRetrievals(dCands))
    => \A i \in C4Qualifying : Total(dCands[i]) <= dResult.action.confidence

\* the tokens of a text, stated directly: the lower-cased maximal runs of word
\* pieces between separators
TokensOf(text) ==
    { LowerText(SubSeq(text, p[1], p[2])) : p \in
        { p \in (1..Len(text)) \X (1..Len(text)) :
            /\ p[1] <= p[2]
            /\ \A k \in p[1]..p[2] : text[k] # Separator
            /\ (p[1] = 1 \/ text[p[1] - 1] = Separator)
            /\ (p[2] = Len(text) \/ text[p[2] + 1] = Separator) } }

\* C34: the keyword score of a candidate is the number of distinct lower-cased
\* word tokens of the query that occur among the snippet's lower-cased tokens,
\* divided by the number of distinct query tokens (the divisor is at least 1
\* and the score is 0 for a query without tokens); 'reset password' against
\* 'How to reset your password' scores 2/2.
C34_KeywordScoreIsMatchRatio ==
    wPc = "done" =>
        /\ wScore.matches = Cardinality(TokensOf(wReq.query) \cap TokensOf(wReq.snippet))
        /\ wScore.total_terms =
              (IF Cardinality(TokensOf(wReq.query)) >= 1
               THEN Cardinality(TokensOf(wReq.query)) ELSE 1)
        /\ (TokensOf(wReq.query) = {} => wScore.matches = 0)
        /\ ((wReq.query \in {<<"reset", Separator, "password">>,
                             <<"Reset", Separator, "password">>}
              /\ Len(wReq.snippet) = 9)
             => (wScore.matches = 2 /\ wScore.total_terms = 2))

C34_Witness ==
    /\ wPc = "done"
    /\ wReq.query = <<"reset", Separator, "password">>
    /\ Len(wReq.snippet) = 9
    /\ wScore = [matches |-> 2, total_terms |-> 2]

\* the answer the citation step is described to produce
C39Expected ==
    LET answer == IF nReq.content = Null THEN <<>> ELSE nReq.content
        sources == {i \in 1..Len(nReq.evidence) : nReq.evidence[i].source # <<>>}
    IN  IF ~ContainsScheme(answer) /\ sources # {}
        THEN answer \o <<CitationHeading>> \o JoinLines(CitationLines(nReq.evidence))
        ELSE answer

\* C39: with need_citations true, generate returns the model's answer followed
\* by a citation section listing every evidence source when the answer holds
\* none of doc://, result://, workflow:// and some evidence has a non-empty
\* source, and the answer unchanged otherwise; it does not raise while
\* ensuring citations.
C39_CitationsEnsured ==
    (nPc = "done" /\ nReq.need_citations)
    => (nOut.kind = "return" /\ nOut.value = C39Expected)

\* the input read as a tree along each path from the root, a reference back to
\* a container of the path being null
RECURSIVE Unfold(_, _, _)
Unfold(heap, obj, path) ==
    IF obj = ScalarRef THEN ScalarLeaf
    ELSE IF obj \in path THEN NullLeaf
    ELSE [kind |-> ContainerKind[obj],
          items |-> [i \in 1..Len(heap[obj]) |-> Unfold(heap, heap[obj][i], path \cup {obj})]]

RECURSIVE Depth(_)
Depth(tree) ==
    IF tree.items = <<>> THEN 1
    ELSE LET depths == {Depth(tree.items[i]) : i \in 1..Len(tree.items)}
         IN  1 + CHOOSE d \in depths : \A e \in depths : e <= d

RECURSIVE HasNull(_)
HasNull(tree) ==
    \/ tree.kind = "null"
    \/ \E i \in 1..Len(tree.items) : HasNull(tree.items[i])

\* the containers reachable from obj in at least one step
RECURSIVE ReachableIn(_, _, _)
ReachableIn(heap, from, steps) ==
    LET next == {n \in HeapNodes : \E m \in from : \E i \in 1..Len(heap[m]) : heap[m][i] = n}
    IN  IF steps = 0 THEN {} ELSE next \cup ReachableIn(heap, next, steps - 1)

Acyclic(heap) ==
    \A n \in {RootNode} \cup ReachableIn(heap, {RootNode}, Cardinality(HeapNodes)) :
        n \notin ReachableIn(heap, {n}, Cardinality(HeapNodes))

\* C36: _break_cycles terminates on every finite structure, also one that
\* contains itself directly or through a cycle; what it returns nests no deeper
\* than there are containers, has null exactly where an item refers back to a
\* container it lies in, and for an acyclic structure is the input itself,
\* also where a sub-structure occurs in two places.
C36_BreakCyclesCopiesUpToBackReferences ==
    bPc = "done" =>
        /\ Depth(bOut) <= Cardinality(HeapNodes) + 1
        /\ bOut = Unfold(bHeap, RootNode, {})
        /\ (Acyclic(bHeap) => ~HasNull(bOut))
        /\ (~Acyclic(bHeap) => HasNull(bOut))

C36_Witness ==
    /\ bPc = "done"
    /\ bHeap = [n \in HeapNodes |-> IF n = 1 THEN <<2, 3>> ELSE IF n = 2 THEN <<3, 1>> ELSE <<0>>]
    /\ bOut = [kind |-> "dict", items |->
                << [kind |-> "list", items |-> << [kind |-> "dict", items |-> <<ScalarLeaf>>], NullLeaf >>],
                   [kind |-> "dict", items |-> <<ScalarLeaf>>] >>]

\* a step of call c appends one run in status running and writes nothing else
C33CreatesRun(c) ==
    /\ eCall[c].run_id = NoRun
    /\ Len(runs') = Len(runs) + 1
    /\ SubSeq(runs', 1, Len(runs)) = runs
    /\ eCall'[c].run_id = Len(runs')
    /\ runs'[Len(runs')].status = "running"
    /\ UNCHANGED <<results, resources>>

\* a step of call c rewrites status, outputs and errors of the run c created
\* and writes nothing else
C33UpdatesOwnRun(c) ==
    /\ eCall[c].run_id # NoRun
    /\ Len(runs') = Len(runs)
    /\ \A r \in 1..Len(runs) :
          IF r = eCall[c].run_id
          THEN runs'[r] = [runs[r] EXCEPT !.status = runs'[r].status,
                                          !.outputs = runs'[r].outputs,
                                          !.errors = runs'[r].errors]
          ELSE runs'[r] = runs[r]
    /\ UNCHANGED <<results, resources>>

\* a step of call c adds the one Result of its run, which is in status success
C33CreatesResult(c) ==
    /\ eCall[c].run_id # NoRun
    /\ runs[eCall[c].run_id].status = "success"
    /\ \A res \in results : res.run_id # eCall[c].run_id
    /\ \E res \in results' :
          /\ res.run_id = eCall[c].run_id
          /\ results' = results \cup {res}
    /\ UNCHANGED <<runs, resources>>

\* a step of call c adds the Resource entry of the Result of its run
C33CreatesResource(c) ==
    /\ eCall[c].run_id # NoRun
    /\ runs[eCall[c].run_id].status = "success"
    /\ \E res \in results :
          /\ res.run_id = eCall[c].run_id
          /\ resources' = resources \cup {res.result_id}
    /\ UNCHANGED <<runs, results>>

\* C33: the only writes to the registry are those of a call of execute: it
\* creates one WorkflowRun, updates that run, and after a success creates one
\* Result and the Resource entry of that Result; every other step (planning,
\* retrieval, decision, evidence assembly, answer generation) leaves the
\* registry as it is.
C33_OnlyRunAndResultWrites ==
    [][\/ UNCHANGED <<runs, results, resources>>
       \/ \E c \in Calls :
             /\ eCall'[c] # eCall[c]
             /\ \A d \in Calls \ {c} : eCall'[d] = eCall[d]
             /\ \/ C33CreatesRun(c)
                \/ C33UpdatesOwnRun(c)
                \/ C33CreatesResult(c)
                \/ C33CreatesResource(c)]_vars

C33_Witness ==
    /\ Len(runs) = 2
    /\ \E c \in Calls :
          /\ eCall[c].pc = "done"
          /\ eCall[c].ret.status = "success"
          /\ ~eCall[c].ret.from_cache
          /\ runs[eCall[c].run_id].status = "success"
          /\ \E res \in results : res.run_id = eCall[c].run_id /\ res.result_id \in resources
          /\ \E r \in 1..Len(runs) : r # eCall[c].run_id /\ runs[r].status = "running"
====
